---- MODULE Spec2Model ----
(***************************************************************************)
(* A model of the High-Scale Energy Ingestion Engine: the polymorphic      *)
(* ingestion controller, the meter and vehicle services with their         *)
(* hot/cold dual write inside the transaction helper, the PostgreSQL       *)
(* schema (history tables, current-status tables, the 24 hour materialized *)
(* view and the helper functions) and the analytics service.               *)
(*                                                                         *)
(* Numbers are integers counting units of 10^-5, so that the rounding the  *)
(* DECIMAL(p, 4) and DECIMAL(p, 2) columns apply to a submitted value is   *)
(* part of the model.  Instants are integers counting days.                *)
(***************************************************************************)
EXTENDS Integers, Sequences, FiniteSets, TLC

VARIABLES
  meterHist,    \* committed rows of meter_telemetry_history
  vehHist,      \* committed rows of vehicle_telemetry_history
  meterSeq,     \* last value of meter_telemetry_history.id's BIGSERIAL
  vehSeq,       \* last value of vehicle_telemetry_history.id's BIGSERIAL
  meterStatus,  \* committed rows of meter_current_status
  vehStatus,    \* committed rows of vehicle_current_status
  tx,           \* per connection slot: the service call running on it
  pool,         \* number of pooled clients checked out
  summary,      \* rows of the materialized view vehicle_24h_performance
  now,          \* the database clock, NOW()
  view,         \* the last answer of the analytics and maintenance operations
  faults,       \* store-level failures the environment may still inject
  budget,       \* requests that may still arrive
  refresh,      \* the REFRESH MATERIALIZED VIEW CONCURRENTLY in progress
  applied,      \* history variable: per device, the reading of the write committed last
  attempted     \* history variable: the row images the status upserts have carried

vars == <<meterHist, vehHist, meterSeq, vehSeq, meterStatus, vehStatus,
          tx, pool, summary, now, view, faults, budget, refresh, applied, attempted>>

store == <<meterHist, vehHist, meterStatus, vehStatus>>
analytics == <<summary, now, view, refresh>>

-----------------------------------------------------------------------------
(* Bounds of the model.                                                    *)

MaxReqs == 2
MaxFaults == 1
MaxNow == 2

\* Two pooled connections are in use at a time.
Slots == {1, 2}

-----------------------------------------------------------------------------
(* JavaScript values of a request payload.                                 *)

Num(n) == [t |-> "number", v |-> n]
Str(s) == [t |-> "string", s |-> s]
Iso(n) == [t |-> "string", iso |-> n]   \* a string holding the ISO 8601 form of instant n
NumStr(n) == [t |-> "string", digits |-> n]   \* a string holding the decimal form of n
Undef == [t |-> "undefined"]
JsNull == [t |-> "object", isNull |-> TRUE]
JsObject(fields) == [t |-> "object", fields |-> fields]
JsArray(items) == [t |-> "array", items |-> items]
IsArray(x) == x.t = "array"

NaN == [t |-> "number", nan |-> TRUE]
Infinity == [t |-> "number", inf |-> TRUE]
IsNaN(x) == x.t = "number" /\ "nan" \in DOMAIN x
IsNum(x) == x.t = "number"
IsIso(x) == x.t = "string" /\ "iso" \in DOMAIN x
IsPlainStr(x) == x.t = "string" /\ "s" \in DOMAIN x

\* !x of JavaScript
Falsy(x) ==
  \/ x.t = "undefined"
  \/ x = JsNull
  \/ IsPlainStr(x) /\ x.s = ""
  \/ IsNaN(x)
  \/ IsNum(x) /\ "v" \in DOMAIN x /\ x.v = 0

MeterPayload(id, kwh, volt, ts) ==
  [meterId |-> Str(id), kwhConsumedAc |-> Num(kwh), voltage |-> Num(volt),
   vehicleId |-> Undef, soc |-> Undef, kwhDeliveredDc |-> Undef,
   batteryTemp |-> Undef, timestamp |-> Iso(ts)]

VehiclePayload(id, soc, dc, temp, ts) ==
  [meterId |-> Undef, kwhConsumedAc |-> Undef, voltage |-> Undef,
   vehicleId |-> Str(id), soc |-> Num(soc), kwhDeliveredDc |-> Num(dc),
   batteryTemp |-> Num(temp), timestamp |-> Iso(ts)]

-----------------------------------------------------------------------------
(* Column types of the schema.                                             *)

One == 100000          \* the number 1 in units of 10^-5
Scale4 == 10           \* one unit of a DECIMAL(p, 4) column
Scale2 == 1000         \* one unit of a DECIMAL(p, 2) column

\* PostgreSQL rounds a numeric to the column's scale, ties away from zero.
RoundTo(x, u) ==
  IF x >= 0 THEN ((x + u \div 2) \div u) * u
            ELSE -((((-x) + u \div 2) \div u) * u)

Null == [null |-> TRUE]
Cell(v) == [null |-> FALSE, v |-> v]
Bad == [null |-> FALSE, bad |-> TRUE]   \* the parameter does not convert: the statement errors
IsBad(c) == "bad" \in DOMAIN c
IsNull(c) == c.null

\* As ToDecimal, but cutting the digits beyond the column's scale off.
ToDecimalTruncating(x, u) ==
  IF x.t = "undefined" THEN Null
  ELSE IF IsNum(x) THEN Cell((x.v \div u) * u)
  ELSE Bad

\* A query parameter bound to a DECIMAL(p, s) column.
ToDecimal(x, u) ==
  IF x.t = "undefined" THEN Null
  ELSE IF IsNum(x) THEN Cell(RoundTo(x.v, u))
  ELSE Bad

\* A query parameter bound to a VARCHAR(100) column.
ToVarchar(x) ==
  IF x.t = "undefined" THEN Null
  ELSE IF IsPlainStr(x) THEN Cell(x.s)
  ELSE Bad

\* A query parameter bound to a TIMESTAMPTZ column.
ToTimestamptz(x) ==
  IF x.t = "undefined" THEN Null
  ELSE IF IsIso(x) THEN Cell(x.iso)
  ELSE Bad

-----------------------------------------------------------------------------
(* Rows of the four tables.  A row is built from the statement's           *)
(* parameters; the statement errors when a parameter does not convert,     *)
(* a NOT NULL column gets NULL, a DECIMAL(5, 2) overflows or a CHECK fails. *)

MeterCells(p) ==
  [meter_id |-> ToVarchar(p.meterId),
   kwh_consumed_ac |-> ToDecimal(p.kwhConsumedAc, Scale4),
   voltage |-> ToDecimal(p.voltage, Scale2),
   at |-> ToTimestamptz(p.timestamp)]

VehicleCells(p) ==
  [vehicle_id |-> ToVarchar(p.vehicleId),
   soc |-> ToDecimal(p.soc, Scale2),
   kwh_delivered_dc |-> ToDecimal(p.kwhDeliveredDc, Scale4),
   battery_temp |-> ToDecimal(p.batteryTemp, Scale2),
   at |-> ToTimestamptz(p.timestamp)]

NotNull(c) == \A f \in DOMAIN c : ~IsBad(c[f]) /\ ~IsNull(c[f])

Decimal52Limit == 1000   \* DECIMAL(5, 2) holds |x| < 10^3

MeterRowOk(p) == NotNull(MeterCells(p))

VehicleRowOk(p) ==
  LET c == VehicleCells(p) IN
  /\ NotNull(c)
  /\ c.soc.v >= 0 /\ c.soc.v <= 100 * One
  /\ c.soc.v < Decimal52Limit * One
  /\ c.battery_temp.v < Decimal52Limit * One
  /\ c.battery_temp.v > -(Decimal52Limit * One)

MeterHistoryRow(p, id) ==
  LET c == MeterCells(p) IN
  [id |-> id, meter_id |-> c.meter_id.v, kwh_consumed_ac |-> c.kwh_consumed_ac.v,
   voltage |-> c.voltage.v, recorded_at |-> c.at.v]

VehicleHistoryRow(p, id) ==
  LET c == VehicleCells(p) IN
  [id |-> id, vehicle_id |-> c.vehicle_id.v, soc |-> c.soc.v,
   kwh_delivered_dc |-> c.kwh_delivered_dc.v, battery_temp |-> c.battery_temp.v,
   recorded_at |-> c.at.v]

MeterStatusRow(p) ==
  LET c == MeterCells(p) IN
  [meter_id |-> c.meter_id.v, kwh_consumed_ac |-> c.kwh_consumed_ac.v,
   voltage |-> c.voltage.v, last_updated |-> c.at.v]

VehicleStatusRow(p, isCharging) ==
  LET c == VehicleCells(p) IN
  [vehicle_id |-> c.vehicle_id.v, soc |-> c.soc.v,
   kwh_delivered_dc |-> c.kwh_delivered_dc.v, battery_temp |-> c.battery_temp.v,
   last_updated |-> c.at.v, is_charging |-> isCharging]

\* As UpsertMeterStatus, but DO UPDATE ... WHERE the stored last_updated is older.
UpsertMeterStatusIfNewer(table, r) ==
  IF \E s \in table : s.meter_id = r.meter_id
  THEN {IF s.meter_id = r.meter_id /\ s.last_updated < r.last_updated THEN r ELSE s : s \in table}
  ELSE table \cup {r}

\* INSERT INTO meter_current_status ... ON CONFLICT (meter_id) DO UPDATE SET ...
UpsertMeterStatus(table, r) ==
  IF \E s \in table : s.meter_id = r.meter_id
  THEN {IF s.meter_id = r.meter_id
        THEN [s EXCEPT !.kwh_consumed_ac = r.kwh_consumed_ac,
                       !.voltage = r.voltage,
                       !.last_updated = r.last_updated]
        ELSE s : s \in table}
  ELSE table \cup {r}

\* As UpsertVehicleStatus, but with battery_temp missing from the SET list.
UpsertVehicleStatusWithoutTemp(table, r) ==
  IF \E s \in table : s.vehicle_id = r.vehicle_id
  THEN {IF s.vehicle_id = r.vehicle_id
        THEN [s EXCEPT !.soc = r.soc,
                       !.kwh_delivered_dc = r.kwh_delivered_dc,
                       !.last_updated = r.last_updated,
                       !.is_charging = r.is_charging]
        ELSE s : s \in table}
  ELSE table \cup {r}

\* INSERT INTO vehicle_current_status ... ON CONFLICT (vehicle_id) DO UPDATE SET ...
UpsertVehicleStatus(table, r) ==
  IF \E s \in table : s.vehicle_id = r.vehicle_id
  THEN {IF s.vehicle_id = r.vehicle_id
        THEN [s EXCEPT !.soc = r.soc,
                       !.kwh_delivered_dc = r.kwh_delivered_dc,
                       !.battery_temp = r.battery_temp,
                       !.last_updated = r.last_updated,
                       !.is_charging = r.is_charging]
        ELSE s : s \in table}
  ELSE table \cup {r}

\* As ApplyMeterUpserts, but leaving the loop after the first reading.
ApplyFirstMeterUpsert(table, rows) ==
  IF rows = <<>> THEN table ELSE UpsertMeterStatus(table, Head(rows))

RECURSIVE ApplyMeterUpsertsLastFirst(_, _)
\* As ApplyMeterUpserts, but with the loop running from the last reading to
\* the first.
ApplyMeterUpsertsLastFirst(table, rows) ==
  IF rows = <<>> THEN table
  ELSE ApplyMeterUpsertsLastFirst(UpsertMeterStatus(table, rows[Len(rows)]),
                                  SubSeq(rows, 1, Len(rows) - 1))

RECURSIVE ApplyMeterUpserts(_, _)
ApplyMeterUpserts(table, rows) ==
  IF rows = <<>> THEN table
  ELSE ApplyMeterUpserts(UpsertMeterStatus(table, Head(rows)), Tail(rows))

RECURSIVE ApplyVehicleUpserts(_, _)
ApplyVehicleUpserts(table, rows) ==
  IF rows = <<>> THEN table
  ELSE ApplyVehicleUpserts(UpsertVehicleStatus(table, Head(rows)), Tail(rows))

-----------------------------------------------------------------------------
(* The ingestion controller's classifier and the services' validators.     *)

\* As identifyTelemetryType, but with the check for vehicle fields first.
identifyTelemetryTypeVehicleFirst(data) ==
  IF data.vehicleId.t # "undefined" /\ data.soc.t # "undefined"
     /\ data.kwhDeliveredDc.t # "undefined"
  THEN "vehicle"
  ELSE IF data.meterId.t # "undefined" /\ data.kwhConsumedAc.t # "undefined"
          /\ data.voltage.t # "undefined"
  THEN "meter"
  ELSE "unknown"

identifyTelemetryType(data) ==
  IF data.meterId.t # "undefined" /\ data.kwhConsumedAc.t # "undefined"
     /\ data.voltage.t # "undefined"
  THEN "meter"
  ELSE IF data.vehicleId.t # "undefined" /\ data.soc.t # "undefined"
          /\ data.kwhDeliveredDc.t # "undefined"
  THEN "vehicle"
  ELSE "unknown"

\* new Date(timestamp).getTime() is not NaN
DateParses(x) == IsIso(x) \/ IsNum(x)

\* The message of the error validateMeterData throws, "" when it returns.
validateMeterData(data) ==
  IF Falsy(data.meterId) \/ data.meterId.t # "string"
  THEN "Invalid meterId: must be a non-empty string"
  ELSE IF ~IsNum(data.kwhConsumedAc) \/ data.kwhConsumedAc.v < 0
  THEN "Invalid kwhConsumedAc: must be a positive number"
  ELSE IF ~IsNum(data.voltage) \/ data.voltage.v < 0
  THEN "Invalid voltage: must be a positive number"
  ELSE IF Falsy(data.timestamp)
  THEN "Invalid timestamp: timestamp is required"
  ELSE IF ~DateParses(data.timestamp)
  THEN "Invalid timestamp: must be a valid ISO 8601 date string"
  ELSE ""

\* The message of the error validateVehicleData throws, "" when it returns.
validateVehicleData(data) ==
  IF Falsy(data.vehicleId) \/ data.vehicleId.t # "string"
  THEN "Invalid vehicleId: must be a non-empty string"
  ELSE IF ~IsNum(data.soc) \/ data.soc.v < 0 \/ data.soc.v > 100 * One
  THEN "Invalid soc: must be a number between 0 and 100"
  ELSE IF ~IsNum(data.kwhDeliveredDc) \/ data.kwhDeliveredDc.v < 0
  THEN "Invalid kwhDeliveredDc: must be a positive number"
  ELSE IF ~IsNum(data.batteryTemp)
  THEN "Invalid batteryTemp: must be a number"
  ELSE IF Falsy(data.timestamp)
  THEN "Invalid timestamp: timestamp is required"
  ELSE IF ~DateParses(data.timestamp)
  THEN "Invalid timestamp: must be a valid ISO 8601 date string"
  ELSE ""

-----------------------------------------------------------------------------
(* Inputs.                                                                 *)

Ids == {"D1", "D2"}

\* Readings a meter may submit.  The second one carries more decimal places
\* than its columns keep and an older timestamp than the first.
MeterBodies ==
  {MeterPayload("D1", 320000, 23000000, 1),
   MeterPayload("D1", 5, 21999600, 0),
   MeterPayload("D2", 1250000, 11000000, 1)}

\* Readings a vehicle may submit.  The first two are of one vehicle with a
\* rising soc, 39.996 and then 40; the columns keep 40.00 of either.  The
\* third one is of the same vehicle at 45.
VehicleBodies ==
  {VehiclePayload("D1", 3999600, 500000, 2500000, 0),
   VehiclePayload("D1", 4000000, 30000, 2700000, 1),
   VehiclePayload("D1", 4500000, 30000, 2700000, 1)}

\* A vehicle reading without soc (neither schema), a meter reading whose
\* kwhConsumedAc is negative, and a vehicle reading whose batteryTemp is 1000.
OtherBodies ==
  {[VehiclePayload("D1", 4000000, 500000, 2500000, 1) EXCEPT !.soc = Undef],
   MeterPayload("D1", -One, 23000000, 1),
   VehiclePayload("D2", 5500000, 800000, 1000 * One, 1)}

\* retention_days of the calls of cleanup_old_data
RetentionDays == {0, 1}

Bodies == MeterBodies \cup VehicleBodies \cup OtherBodies

\* Bodies of batch requests: one device class with two devices in either
\* order, one vehicle twice with a rising soc, both classes, an item of
\* neither schema, with a meter item and alone, a meter item whose
\* kwhConsumedAc is negative with a vehicle item without batteryTemp, and no
\* item.
BatchBodies ==
  {<<MeterPayload("D1", 320000, 23000000, 1), MeterPayload("D2", 1250000, 11000000, 1)>>,
   <<MeterPayload("D2", 1250000, 11000000, 1), MeterPayload("D1", 5, 21999600, 0)>>,
   <<VehiclePayload("D1", 4100000, 500000, 2500000, 0),
     VehiclePayload("D1", 5000000, 30000, 2700000, 1)>>,
   <<MeterPayload("D1", 320000, 23000000, 1), VehiclePayload("D1", 4000000, 30000, 2700000, 1),
     MeterPayload("D2", 1250000, 11000000, 1), VehiclePayload("D2", 5500000, 80000, -500000, 1)>>,
   <<[VehiclePayload("D1", 4000000, 500000, 2500000, 1) EXCEPT !.soc = Undef],
     MeterPayload("D2", 1250000, 11000000, 1)>>,
   <<[VehiclePayload("D1", 4000000, 500000, 2500000, 1) EXCEPT !.soc = Undef]>>,
   <<MeterPayload("D1", -One, 23000000, 1),
     [VehiclePayload("D1", 4000000, 500000, 2500000, 1) EXCEPT !.batteryTemp = Undef]>>,
   <<>>}

-----------------------------------------------------------------------------
(* The service call running on a pooled connection, and the response of    *)
(* the request it belongs to.                                              *)

NoOut == [state |-> "none", count |-> 0, message |-> ""]
Fulfilled(n) == [state |-> "fulfilled", count |-> n, message |-> ""]
Rejected(msg) == [state |-> "rejected", count |-> 0, message |-> msg]

NoResp == [status |-> 0]

IdleTx ==
  [pc |-> "idle", cls |-> "none", batch |-> FALSE, peer |-> 0, args |-> <<>>,
   i |-> 0, hist |-> {}, stat |-> <<>>, isCharging |-> FALSE, out |-> NoOut,
   resp |-> NoResp]

Free(t) == tx[t].pc \in {"idle", "done"}
InTx(t) == tx[t].pc \in {"insHist", "select", "upsert", "commit"}

FreeSlots == {t \in Slots : Free(t)}
Lowest(S) == CHOOSE t \in S : \A u \in S : t <= u

DeviceId(cls, p) == IF cls = "meter" THEN p.meterId.s ELSE p.vehicleId.s

\* The keys of the status table a transaction has written and not yet committed.
LockedKeys(t) ==
  IF tx[t].cls = "meter" THEN {tx[t].stat[k].meter_id : k \in DOMAIN tx[t].stat}
  ELSE {tx[t].stat[k].vehicle_id : k \in DOMAIN tx[t].stat}

\* The transactions whose uncommitted write of the row t is about to upsert makes t wait.
Blockers(t) ==
  {u \in Slots \ {t} :
     /\ InTx(u) /\ tx[u].cls = tx[t].cls
     /\ DeviceId(tx[t].cls, tx[t].args[tx[t].i]) \in LockedKeys(u)}

\* res.status(...).json(...) of ingestTelemetry
SingleResponse(t, out) ==
  IF out.state = "fulfilled"
  THEN IF tx[t].cls = "vehicle"
       THEN [status |-> 201, success |-> TRUE, type |-> "vehicle",
             isCharging |-> tx[t].isCharging]
       ELSE [status |-> 201, success |-> TRUE, type |-> "meter"]
  ELSE [status |-> 400, success |-> FALSE, error |-> out.message]

\* As BatchResponse, but awaiting the two calls with Promise.all: a rejection
\* reaches the catch block.
BatchResponseOfPromiseAll(meterResult, vehicleResult) ==
  IF meterResult.state = "rejected"
  THEN [status |-> 400, success |-> FALSE, error |-> meterResult.message]
  ELSE IF vehicleResult.state = "rejected"
  THEN [status |-> 400, success |-> FALSE, error |-> vehicleResult.message]
  ELSE [status |-> 201, success |-> TRUE,
        total |-> meterResult.count + vehicleResult.count,
        meters |-> meterResult.count, vehicles |-> vehicleResult.count, errors |-> <<>>]

\* res.status(201).json(...) of ingestBatch, from the two settled promises
BatchResponse(meterResult, vehicleResult) ==
  LET meters == IF meterResult.state = "fulfilled" THEN meterResult.count ELSE 0
      vehicles == IF vehicleResult.state = "fulfilled" THEN vehicleResult.count ELSE 0
  IN [status |-> 201, success |-> TRUE,
      total |-> meters + vehicles, meters |-> meters, vehicles |-> vehicles,
      errors |-> (IF meterResult.state = "rejected" THEN <<meterResult.message>> ELSE <<>>)
                 \o (IF vehicleResult.state = "rejected" THEN <<vehicleResult.message>> ELSE <<>>)]

\* The slots after the call on slot t settles with out: a single ingest is
\* answered; a batch is answered once both of its promises have settled.
Settle(t, out) ==
  LET me == [tx[t] EXCEPT !.pc = "done", !.stat = <<>>, !.out = out]
      u == tx[t].peer
  IN IF ~tx[t].batch
     THEN [tx EXCEPT ![t] = [me EXCEPT !.resp = SingleResponse(t, out)]]
     ELSE IF u # 0 /\ tx[u].pc # "settled"
     THEN [tx EXCEPT ![t] = [me EXCEPT !.pc = "settled"]]
     ELSE LET other == IF u = 0 THEN Fulfilled(0) ELSE tx[u].out
              r == IF tx[t].cls = "meter" THEN BatchResponse(out, other)
                   ELSE BatchResponse(other, out)
          IN [v \in Slots |->
                IF v = t THEN [me EXCEPT !.resp = r]
                ELSE IF v = u THEN [tx[u] EXCEPT !.pc = "done", !.resp = r]
                ELSE tx[v]]

\* As IngestTelemetry, but handing a payload of neither schema to the vehicle
\* service, and without the services' validation.
IngestTelemetryUnchecked(body) ==
  /\ FreeSlots # {} /\ budget > 0
  /\ budget' = budget - 1
  /\ LET t == Lowest(FreeSlots)
         type == identifyTelemetryType(body)
         call == [IdleTx EXCEPT !.cls = IF type = "meter" THEN "meter" ELSE "vehicle",
                                !.args = <<body>>]
     IN /\ tx' = [tx EXCEPT ![t] = [call EXCEPT !.pc = "insHist"]]
        /\ pool' = pool + 1
  /\ UNCHANGED <<store, meterSeq, vehSeq, faults, analytics, applied, attempted>>

\* POST /v1/ingest: classify, validate, take a client from the pool, BEGIN.
IngestTelemetry(body) ==
  /\ FreeSlots # {} /\ budget > 0
  /\ budget' = budget - 1
  /\ LET t == Lowest(FreeSlots)
         type == identifyTelemetryType(body)
         msg == IF type = "meter" THEN validateMeterData(body)
                ELSE IF type = "vehicle" THEN validateVehicleData(body)
                ELSE "Unknown telemetry type. Expected meter or vehicle format."
         call == [IdleTx EXCEPT !.cls = type, !.args = <<body>>]
     IN IF msg # ""
        THEN /\ tx' = [tx EXCEPT ![t] =
                         [call EXCEPT !.pc = "done", !.out = Rejected(msg),
                            !.resp = [status |-> 400, success |-> FALSE, error |-> msg]]]
             /\ pool' = pool
        ELSE /\ tx' = [tx EXCEPT ![t] = [call EXCEPT !.pc = "insHist"]]
             /\ pool' = pool + 1
  /\ UNCHANGED <<store, meterSeq, vehSeq, faults, analytics, applied, attempted>>

RECURSIVE FilterUnknownAsVehicle(_, _)
\* As Filter, but with an else branch that pushes the items of neither schema
\* to vehicleBatch.
FilterUnknownAsVehicle(batchData, type) ==
  IF batchData = <<>> THEN <<>>
  ELSE IF \/ identifyTelemetryType(Head(batchData)) = type
          \/ type = "vehicle" /\ identifyTelemetryType(Head(batchData)) = "unknown"
       THEN <<Head(batchData)>> \o FilterUnknownAsVehicle(Tail(batchData), type)
       ELSE FilterUnknownAsVehicle(Tail(batchData), type)

RECURSIVE Filter(_, _)
\* The items of batchData of one type, in order.
Filter(batchData, type) ==
  IF batchData = <<>> THEN <<>>
  ELSE IF identifyTelemetryType(Head(batchData)) = type
       THEN <<Head(batchData)>> \o Filter(Tail(batchData), type)
       ELSE Filter(Tail(batchData), type)

\* POST /v1/ingest/batch: split by type and start meterService.ingestBatch and
\* vehicleService.ingestBatch, each in a transaction of its own.
IngestBatch(batchData) ==
  /\ budget > 0
  /\ budget' = budget - 1
  /\ LET meterBatch == Filter(batchData, "meter")
         vehicleBatch == Filter(batchData, "vehicle")
         n == (IF meterBatch # <<>> THEN 1 ELSE 0) + (IF vehicleBatch # <<>> THEN 1 ELSE 0)
         t == Lowest(FreeSlots)
         u == Lowest(FreeSlots \ {t})
         call(cls, args, peer) ==
           [IdleTx EXCEPT !.pc = "insHist", !.cls = cls, !.batch = TRUE,
                          !.args = args, !.peer = peer]
     IN /\ FreeSlots # {}
        /\ n = 2 => FreeSlots = Slots
        /\ IF batchData = <<>>
           THEN /\ tx' = [tx EXCEPT ![t] =
                            [IdleTx EXCEPT !.pc = "done", !.batch = TRUE,
                               !.resp = [status |-> 400, success |-> FALSE,
                                         error |-> "Invalid batch data: expected non-empty array"]]]
                /\ pool' = pool
           ELSE IF n = 0
           THEN /\ tx' = [tx EXCEPT ![t] =
                            [IdleTx EXCEPT !.pc = "done", !.batch = TRUE,
                               !.resp = BatchResponse(Fulfilled(0), Fulfilled(0))]]
                /\ pool' = pool
           ELSE IF n = 2
           THEN /\ tx' = [tx EXCEPT ![t] = call("meter", meterBatch, u),
                                    ![u] = call("vehicle", vehicleBatch, t)]
                /\ pool' = pool + 2
           ELSE /\ tx' = [tx EXCEPT ![t] =
                            IF meterBatch # <<>> THEN call("meter", meterBatch, 0)
                            ELSE call("vehicle", vehicleBatch, 0)]
                /\ pool' = pool + 1
  /\ UNCHANGED <<store, meterSeq, vehSeq, faults, analytics, applied, attempted>>

\* INSERT INTO meter_telemetry_history / vehicle_telemetry_history, one row per reading.
InsertHistory(t) ==
  /\ tx[t].pc = "insHist"
  /\ LET a == tx[t].args
         n == Len(a)
         next == IF tx[t].cls = "vehicle" /\ ~tx[t].batch THEN "select" ELSE "upsert"
     IN IF tx[t].cls = "meter"
        THEN IF \A k \in 1..n : MeterRowOk(a[k])
             THEN /\ tx' = [tx EXCEPT ![t].pc = next, ![t].i = 1,
                              ![t].hist = {MeterHistoryRow(a[k], meterSeq + k) : k \in 1..n}]
                  /\ meterSeq' = meterSeq + n
                  /\ UNCHANGED <<vehSeq, pool>>
             ELSE /\ tx' = Settle(t, Rejected("meter_telemetry_history"))
                  /\ pool' = pool - 1
                  /\ UNCHANGED <<meterSeq, vehSeq>>
        ELSE IF \A k \in 1..n : VehicleRowOk(a[k])
             THEN /\ tx' = [tx EXCEPT ![t].pc = next, ![t].i = 1,
                              ![t].hist = {VehicleHistoryRow(a[k], vehSeq + k) : k \in 1..n}]
                  /\ vehSeq' = vehSeq + n
                  /\ UNCHANGED <<meterSeq, pool>>
             ELSE /\ tx' = Settle(t, Rejected("vehicle_telemetry_history"))
                  /\ pool' = pool - 1
                  /\ UNCHANGED <<meterSeq, vehSeq>>
  /\ UNCHANGED <<store, faults, budget, analytics, applied, attempted>>

\* SELECT soc FROM vehicle_current_status WHERE vehicle_id = $1, then
\* isCharging = rows.length > 0 ? soc > rows[0].soc : false
SelectPrevStatus(t) ==
  /\ tx[t].pc = "select"
  /\ LET p == tx[t].args[1]
         prevStatus == {s \in vehStatus : s.vehicle_id = p.vehicleId.s}
     IN tx' = [tx EXCEPT ![t].pc = "upsert",
                         ![t].isCharging = \E s \in prevStatus : p.soc.v > s.soc]
  /\ UNCHANGED <<store, meterSeq, vehSeq, pool, faults, budget, analytics, applied, attempted>>

\* As ChargingParam, but with the batch comparing the reading's soc with the
\* soc of the vehicle's status row, as the single ingest does.
ChargingParamCompared(t) ==
  IF ~tx[t].batch THEN tx[t].isCharging
  ELSE /\ tx[t].cls = "vehicle" /\ tx[t].i \in DOMAIN tx[t].args
       /\ \E s \in vehStatus : /\ s.vehicle_id = tx[t].args[tx[t].i].vehicleId.s
                                /\ tx[t].args[tx[t].i].soc.v > s.soc

\* The is_charging parameter of the status upsert: the batch passes false.
ChargingParam(t) == IF tx[t].batch THEN FALSE ELSE tx[t].isCharging

\* INSERT INTO ..._current_status ... ON CONFLICT DO UPDATE, for reading i of the call.
\* The statement waits while another transaction holds the row.
UpsertStatus(t) ==
  /\ tx[t].pc = "upsert"
  /\ Blockers(t) = {}
  /\ LET p == tx[t].args[tx[t].i]
         row == IF tx[t].cls = "meter" THEN MeterStatusRow(p)
                ELSE VehicleStatusRow(p, ChargingParam(t))
     IN /\ tx' = [tx EXCEPT ![t].stat = Append(@, row),
                            ![t].i = @ + 1,
                            ![t].pc = IF tx[t].i = Len(tx[t].args) THEN "commit" ELSE "upsert"]
        /\ attempted' = attempted \cup {row}
  /\ UNCHANGED <<store, meterSeq, vehSeq, pool, faults, budget, analytics, applied>>

NoWrite == [set |-> FALSE]
Write(p, isCharging, batch) ==
  [set |-> TRUE, body |-> p, isCharging |-> isCharging, batch |-> batch]

\* The reading transaction t writes last to device id's status row, else the one applied before.
LastWrite(t, id) ==
  LET K == {k \in DOMAIN tx[t].args : DeviceId(tx[t].cls, tx[t].args[k]) = id}
  IN IF K = {} THEN applied[tx[t].cls][id]
     ELSE Write(tx[t].args[CHOOSE k \in K : \A j \in K : j <= k], ChargingParam(t), tx[t].batch)

\* As Commit, but with the call resolving to the number of status rows it
\* has written instead of the number of its readings.
CommitCountingStatusRows(t) ==
  /\ tx[t].pc = "commit"
  /\ IF tx[t].cls = "meter"
     THEN /\ meterHist' = meterHist \cup tx[t].hist
          /\ meterStatus' = ApplyMeterUpserts(meterStatus, tx[t].stat)
          /\ UNCHANGED <<vehHist, vehStatus>>
     ELSE /\ vehHist' = vehHist \cup tx[t].hist
          /\ vehStatus' = ApplyVehicleUpserts(vehStatus, tx[t].stat)
          /\ UNCHANGED <<meterHist, meterStatus>>
  /\ tx' = Settle(t, Fulfilled(Cardinality(LockedKeys(t))))
  /\ pool' = pool - 1
  /\ applied' = [applied EXCEPT ![tx[t].cls] = [id \in Ids |-> LastWrite(t, id)]]
  /\ UNCHANGED <<meterSeq, vehSeq, analytics, faults, budget, attempted>>

\* COMMIT; finally: client.release(); the call resolves.
Commit(t) ==
  /\ tx[t].pc = "commit"
  /\ IF tx[t].cls = "meter"
     THEN /\ meterHist' = meterHist \cup tx[t].hist
          /\ meterStatus' = ApplyMeterUpserts(meterStatus, tx[t].stat)
          /\ UNCHANGED <<vehHist, vehStatus>>
     ELSE /\ vehHist' = vehHist \cup tx[t].hist
          /\ vehStatus' = ApplyVehicleUpserts(vehStatus, tx[t].stat)
          /\ UNCHANGED <<meterHist, meterStatus>>
  /\ tx' = Settle(t, Fulfilled(Len(tx[t].args)))
  /\ pool' = pool - 1
  /\ applied' = [applied EXCEPT ![tx[t].cls] = [id \in Ids |-> LastWrite(t, id)]]
  /\ UNCHANGED <<meterSeq, vehSeq, analytics, faults, budget, attempted>>

\* As StatementFails, but with the statements sent outside the transaction
\* (pool.query instead of client.query): the rows inserted so far stay.
StatementFailsAfterAutocommit(t) ==
  /\ InTx(t) /\ faults > 0
  /\ faults' = faults - 1
  /\ IF tx[t].cls = "meter"
     THEN meterHist' = meterHist \cup tx[t].hist /\ UNCHANGED <<vehHist, meterStatus, vehStatus>>
     ELSE vehHist' = vehHist \cup tx[t].hist /\ UNCHANGED <<meterHist, meterStatus, vehStatus>>
  /\ tx' = Settle(t, Rejected("store failure"))
  /\ pool' = pool - 1
  /\ UNCHANGED <<meterSeq, vehSeq, analytics, budget, applied, attempted>>

\* A statement of the transaction (the insert, the select, an upsert or COMMIT)
\* fails at the store: catch: ROLLBACK, rethrow; finally: client.release().
StatementFails(t) ==
  /\ InTx(t) /\ faults > 0
  /\ faults' = faults - 1
  /\ tx' = Settle(t, Rejected("store failure"))
  /\ pool' = pool - 1
  /\ UNCHANGED <<store, meterSeq, vehSeq, budget, analytics, applied, attempted>>

\* As RollbackFails, but with client.release() after the ROLLBACK in the catch
\* block, where the ROLLBACK's error passes it by.
RollbackFailsHoldingClient(t) ==
  /\ InTx(t) /\ faults > 0
  /\ faults' = faults - 1
  /\ tx' = Settle(t, Rejected("rollback failure"))
  /\ pool' = pool
  /\ UNCHANGED <<store, meterSeq, vehSeq, budget, analytics, applied, attempted>>

\* The connection is lost during the transaction: the statement fails, and
\* in the catch block the ROLLBACK fails as well, so that its error is the
\* one thrown; finally: client.release().  The store ends the transaction.
RollbackFails(t) ==
  /\ InTx(t) /\ faults > 0
  /\ faults' = faults - 1
  /\ tx' = Settle(t, Rejected("rollback failure"))
  /\ pool' = pool - 1
  /\ UNCHANGED <<store, meterSeq, vehSeq, budget, analytics, applied, attempted>>

\* Two transactions wait for each other's row: PostgreSQL aborts one of them.
DeadlockDetected(t) ==
  /\ tx[t].pc = "upsert"
  /\ \E u \in Blockers(t) : tx[u].pc = "upsert" /\ t \in Blockers(u)
  /\ tx' = Settle(t, Rejected("deadlock detected"))
  /\ pool' = pool - 1
  /\ UNCHANGED <<store, meterSeq, vehSeq, faults, budget, analytics, applied, attempted>>

-----------------------------------------------------------------------------
(* IEEE 754 double arithmetic, for the numbers analyticsService computes.  *)
(* A positive double is [m, e], the value m * 2^e with 2^52 <= m < 2^53.   *)
(* Integers of up to 81 bits are triples of 27 bit limbs, lowest first.    *)

Base == 134217728       \* 2^27
HalfBase == 67108864    \* 2^26

BigOf(n) == <<n % Base, n \div Base, 0>>
BigInt(a) == a[1] + a[2] * Base
BigZero(a) == a[1] = 0 /\ a[2] = 0 /\ a[3] = 0

BigGeq(a, b) ==
  \/ a[3] > b[3]
  \/ a[3] = b[3] /\ a[2] > b[2]
  \/ a[3] = b[3] /\ a[2] = b[2] /\ a[1] >= b[1]

BigDbl(a) ==
  <<(2 * a[1]) % Base,
    ((2 * a[2]) % Base) + (IF a[1] >= HalfBase THEN 1 ELSE 0),
    ((2 * a[3]) % Base) + (IF a[2] >= HalfBase THEN 1 ELSE 0)>>

BigHalf(a) ==
  <<(a[1] \div 2) + (a[2] % 2) * HalfBase, (a[2] \div 2) + (a[3] % 2) * HalfBase, a[3] \div 2>>

\* a - b, for a >= b
BigSub(a, b) ==
  LET b1 == IF a[1] < b[1] THEN 1 ELSE 0
      b2 == IF a[2] - b1 < b[2] THEN 1 ELSE 0
  IN <<a[1] - b[1] + b1 * Base, a[2] - b1 - b[2] + b2 * Base, a[3] - b2 - b[3]>>

BigAdd(a, b) ==
  LET c1 == IF a[1] + b[1] >= Base THEN 1 ELSE 0
      c2 == IF a[2] + b[2] + c1 >= Base THEN 1 ELSE 0
  IN <<(a[1] + b[1]) % Base, (a[2] + b[2] + c1) % Base, a[3] + b[3] + c2>>

\* The operators below bind each intermediate result as the one element of a
\* set, so that it is computed once.
RECURSIVE BigShl(_, _)
BigShl(a, k) ==
  IF k = 0 THEN a ELSE CHOOSE out \in {BigShl(BigDbl(v), k - 1) : v \in {a}} : TRUE

RECURSIVE BigShr(_, _)
BigShr(a, k) ==
  IF k = 0 \/ BigZero(a) THEN a
  ELSE CHOOSE out \in {BigShr(BigHalf(v), k - 1) : v \in {a}} : TRUE

\* 100 a = 64 a + 32 a + 4 a
BigTimes100(a) ==
  CHOOSE out \in {BigAdd(BigAdd(BigDbl(a32), a32), a4) :
                   <<a4, a32>> \in {<<v, BigShl(v, 3)>> : v \in {BigShl(a, 2)}}} : TRUE

Two53 == <<0, HalfBase, 0>>

\* One more bit of a quotient: s = <<the bits so far, the remainder>>, d the divisor.
BitStep(s, d) ==
  IF BigGeq(BigDbl(s[2]), d)
  THEN <<BigAdd(BigDbl(s[1]), BigOf(1)), BigSub(BigDbl(s[2]), d)>>
  ELSE <<BigDbl(s[1]), BigDbl(s[2])>>

RECURSIVE Bits(_, _, _)
Bits(s, d, j) ==
  IF j = 0 THEN s
  ELSE CHOOSE out \in {Bits(BitStep(v, w), w, j - 1) : <<v, w>> \in {<<s, d>>}} : TRUE

\* z = <<n, d, k>> stands for (n / d) * 2^k: double n or d until 1 <= n / d < 2.
NormStep(z) ==
  IF ~BigGeq(z[1], z[2]) THEN <<BigDbl(z[1]), z[2], z[3] - 1>>
  ELSE <<z[1], BigDbl(z[2]), z[3] + 1>>

RECURSIVE Norm(_)
Norm(z) ==
  CHOOSE out \in
    {IF BigGeq(v[1], v[2]) /\ ~BigGeq(v[1], BigDbl(v[2])) THEN v ELSE Norm(NormStep(v)) :
       v \in {z}} : TRUE

\* Round to nearest, ties to even: b = <<the 53 bits, the remainder>> of z.
Round53Of(z, b) ==
  LET r2 == BigDbl(b[2])
      g == BigGeq(r2, z[2])
      rem == IF g THEN BigSub(r2, z[2]) ELSE r2
      up == g /\ (~BigZero(rem) \/ b[1][1] % 2 = 1)
      m == IF up THEN BigAdd(b[1], BigOf(1)) ELSE b[1]
  IN IF m = Two53 THEN [m |-> BigHalf(m), e |-> z[3] - 51]
     ELSE [m |-> m, e |-> z[3] - 52]

\* The double nearest to n / d, for n, d > 0.
Round53(n, d) ==
  CHOOSE out \in
    {Round53Of(z, b) : <<z, b>> \in
       {<<zz, Bits(<<BigOf(1), BigSub(zz[1], zz[2])>>, zz[2], 52)>> :
          zz \in {Norm(<<n, d, 0>>)}}} : TRUE

\* parseFloat of the decimal string of p / 10^5, p > 0
DblOfDecimal(p) == Round53(BigOf(p), BigOf(One))

\* a / b
DblDiv(a, b) ==
  CHOOSE out \in {[q EXCEPT !.e = @ + x1.e - x2.e] :
     <<x1, x2, q>> \in {<<u, v, Round53(u.m, v.m)>> : <<u, v>> \in {<<a, b>>}}} : TRUE

\* a * 100
DblTimes100(a) ==
  CHOOSE out \in {[q EXCEPT !.e = @ + u.e] :
     <<u, q>> \in {<<v, Round53(BigTimes100(v.m), BigOf(1))>> : v \in {a}}} : TRUE

\* y.toFixed(2) as a count of hundredths: the integer n with n / 100 nearest
\* to y, the larger one of two.
ToFixed2(y) ==
  CHOOSE out \in {BigInt(BigHalf(twice)) + (twice[1] % 2) :
     twice \in {BigShr(BigTimes100(y.m), (-y.e) - 1)}} : TRUE

-----------------------------------------------------------------------------
(* The materialized view and the maintenance functions of the schema.      *)

Window == 1             \* INTERVAL '24 hours', in days

RECURSIVE SumOf(_, _)
\* SUM(column) over rows; column is kwh_delivered_dc, kwh_consumed_ac or battery_temp
SumOf(rows, column) ==
  IF rows = {} THEN 0
  ELSE CHOOSE out \in {r[column] + SumOf(rows \ {r}, column) :
                         r \in {CHOOSE q \in rows : TRUE}} : TRUE

\* AVG(battery_temp), to the model's resolution
AvgOf(rows, column) ==
  LET sum == SumOf(rows, column)
      n == Cardinality(rows)
  IN IF sum >= 0 THEN (2 * sum + n) \div (2 * n) ELSE -((2 * (-sum) + n) \div (2 * n))

MinAt(rows) == CHOOSE x \in {r.recorded_at : r \in rows} : \A r \in rows : x <= r.recorded_at
MaxAt(rows) == CHOOSE x \in {r.recorded_at : r \in rows} : \A r \in rows : x >= r.recorded_at

RECURSIVE Digits(_, _, _)
\* s = <<q, r>>: k more decimal digits of the quotient q + r / d
Digits(s, d, k) ==
  IF k = 0 THEN s
  ELSE CHOOSE out \in {Digits(<<10 * v[1] + ((10 * v[2]) \div d), (10 * v[2]) % d>>, d, k - 1) :
                         v \in {s}} : TRUE

\* ROUND((dc / ac * 100)::numeric, 2) as a count of hundredths, for dc >= 0, ac > 0
RoundedRatio(dc, ac) ==
  CHOOSE out \in {s[1] + (IF 2 * s[2] >= ac THEN 1 ELSE 0) :
                    s \in {Digits(<<dc \div ac, dc % ac>>, ac, 4)}} : TRUE

\* The query of vehicle_24h_performance, evaluated when NOW() is t.
vehicle_24h_performance(t) ==
  LET start_time == t - Window
      vehicle_rows == {r \in vehHist : r.recorded_at >= start_time}
      meter_rows == {r \in meterHist : r.recorded_at >= start_time}
      Row(id) ==
        LET v == {r \in vehicle_rows : r.vehicle_id = id}
            m == {r \in meter_rows : r.meter_id = id}
            total_dc_delivered == SumOf(v, "kwh_delivered_dc")
            total_ac_consumed == SumOf(m, "kwh_consumed_ac")
        IN [vehicle_id |-> id,
            total_dc_delivered |-> total_dc_delivered,
            total_ac_consumed |-> total_ac_consumed,
            efficiency_ratio |-> IF total_ac_consumed > 0
                                 THEN RoundedRatio(total_dc_delivered, total_ac_consumed)
                                 ELSE 0,
            avg_battery_temp |-> AvgOf(v, "battery_temp"),
            vehicle_readings |-> Cardinality(v),
            meter_readings |-> Cardinality(m),
            first_reading |-> MinAt(v),
            last_reading |-> MaxAt(v),
            computed_at |-> t]
  IN {Row(id) : id \in {r.vehicle_id : r \in vehicle_rows}}

\* The clock advances by a day.
Tick ==
  /\ now < MaxNow
  /\ now' = now + 1
  /\ UNCHANGED <<store, meterSeq, vehSeq, tx, pool, summary, view, faults, budget,
                 refresh, applied, attempted>>

\* prior and reads are history: the view as the refresh found it, and the
\* number of reads answered since the refresh began.
NoRefresh == [pc |-> "idle", prior |-> {}, rows |-> {}, merged |-> {}, reads |-> 0]

\* A read of the view is answered, whether or not a refresh is in progress.
Served(r) == IF r.pc = "merging" THEN [r EXCEPT !.reads = @ + 1] ELSE r

SummaryRowsOf(table, id) == {r \in table : r.vehicle_id = id}

\* The table with its rows of vehicle id replaced by those of source.
MergeInto(table, source, id) ==
  (table \ SummaryRowsOf(table, id)) \cup SummaryRowsOf(source, id)

\* SELECT refresh_analytics(): REFRESH MATERIALIZED VIEW CONCURRENTLY runs the
\* view's query into a new relation, without locking out the readers.
RefreshBegin ==
  /\ refresh.pc = "idle"
  /\ refresh' = [pc |-> "merging", prior |-> summary,
                 rows |-> vehicle_24h_performance(now), merged |-> summary, reads |-> 0]
  /\ UNCHANGED <<store, meterSeq, vehSeq, tx, pool, summary, now, view, faults, budget,
                 applied, attempted>>

\* As RefreshMerge, but changing the rows of the view in place, where the
\* readers see them.
RefreshMergeInPlace(id) ==
  /\ refresh.pc = "merging"
  /\ SummaryRowsOf(refresh.merged, id) # SummaryRowsOf(refresh.rows, id)
  /\ refresh' = [refresh EXCEPT !.merged = MergeInto(@, refresh.rows, id)]
  /\ summary' = MergeInto(summary, refresh.rows, id)
  /\ UNCHANGED <<store, meterSeq, vehSeq, tx, pool, now, view, faults, budget,
                 applied, attempted>>

\* The refresh applies the difference between the new relation and the view,
\* a vehicle at a time, as row versions of its own transaction.
RefreshMerge(id) ==
  /\ refresh.pc = "merging"
  /\ SummaryRowsOf(refresh.merged, id) # SummaryRowsOf(refresh.rows, id)
  /\ refresh' = [refresh EXCEPT !.merged = MergeInto(@, refresh.rows, id)]
  /\ UNCHANGED <<store, meterSeq, vehSeq, tx, pool, summary, now, view, faults, budget,
                 applied, attempted>>

\* The refresh commits: its row versions become the view; the request is answered.
RefreshCommit ==
  /\ refresh.pc = "merging"
  /\ refresh.merged = refresh.rows
  /\ summary' = refresh.merged
  /\ refresh' = NoRefresh
  /\ view' = [op |-> "refresh", status |-> 200, success |-> TRUE]
  /\ UNCHANGED <<store, meterSeq, vehSeq, tx, pool, now, faults, budget, applied, attempted>>

\* As RefreshFails, but with the rows merged so far left in the view (the
\* merge done outside the refresh's transaction).
RefreshFailsMidway ==
  /\ refresh.pc = "merging"
  /\ summary' = refresh.merged
  /\ refresh' = NoRefresh
  /\ view' = [op |-> "refresh", status |-> 500, success |-> FALSE, error |-> "store failure"]
  /\ UNCHANGED <<store, meterSeq, vehSeq, tx, pool, now, faults, budget, applied, attempted>>

\* The statement SELECT refresh_analytics() fails at the store: its row versions
\* are discarded, refreshMaterializedView logs and rethrows, and refreshAnalytics
\* answers 500.
RefreshFails ==
  /\ refresh.pc = "merging"
  /\ refresh' = NoRefresh
  /\ view' = [op |-> "refresh", status |-> 500, success |-> FALSE, error |-> "store failure"]
  /\ UNCHANGED <<store, meterSeq, vehSeq, tx, pool, summary, now, faults, budget,
                 applied, attempted>>

\* As Expired, but only the oldest of these rows (DELETE ... LIMIT 1).
ExpiredOneAtATime(hist, cutoff) ==
  LET old == {r \in hist : r.recorded_at < cutoff}
  IN IF old = {} THEN {} ELSE {CHOOSE r \in old : \A q \in old : r.id <= q.id}

\* The rows DELETE FROM ... WHERE recorded_at < cutoff removes from hist.
Expired(hist, cutoff) == {r \in hist : r.recorded_at < cutoff}

\* As CleanupOldData, but without the DELETE FROM vehicle_telemetry_history.
CleanupMeterHistoryOnly(retention_days) ==
  LET cutoff == now - retention_days
      meter_old == Expired(meterHist, cutoff)
  IN /\ meterHist' = meterHist \ meter_old
     /\ view' = [op |-> "cleanup", retention_days |-> retention_days,
                 meter_deleted |-> Cardinality(meter_old), vehicle_deleted |-> 0]
     /\ UNCHANGED <<vehHist, meterStatus, vehStatus, meterSeq, vehSeq, tx, pool, summary, now,
                    faults, budget, refresh, applied, attempted>>

\* As CleanupOldData, but deleting WHERE recorded_at <= the cutoff.
CleanupThroughCutoff(retention_days) ==
  LET cutoff == now - retention_days
      meter_old == {r \in meterHist : r.recorded_at <= cutoff}
      vehicle_old == {r \in vehHist : r.recorded_at <= cutoff}
  IN /\ meterHist' = meterHist \ meter_old
     /\ vehHist' = vehHist \ vehicle_old
     /\ view' = [op |-> "cleanup", retention_days |-> retention_days,
                 meter_deleted |-> Cardinality(meter_old),
                 vehicle_deleted |-> Cardinality(vehicle_old)]
     /\ UNCHANGED <<meterStatus, vehStatus, meterSeq, vehSeq, tx, pool, summary, now,
                    faults, budget, refresh, applied, attempted>>

\* SELECT * FROM cleanup_old_data(retention_days)
CleanupOldData(retention_days) ==
  LET cutoff == now - retention_days
      meter_old == Expired(meterHist, cutoff)
      vehicle_old == Expired(vehHist, cutoff)
  IN /\ meterHist' = meterHist \ meter_old
     /\ vehHist' = vehHist \ vehicle_old
     /\ view' = [op |-> "cleanup", retention_days |-> retention_days,
                 meter_deleted |-> Cardinality(meter_old),
                 vehicle_deleted |-> Cardinality(vehicle_old)]
     /\ UNCHANGED <<meterStatus, vehStatus, meterSeq, vehSeq, tx, pool, summary, now,
                    faults, budget, refresh, applied, attempted>>

-----------------------------------------------------------------------------
(* The analytics service.  A number it returns is Num(v), NaN or Infinity; *)
(* v counts hundredths for efficiencyRatio, units of 10^-5 for energies    *)
(* and temperatures, and is the number itself for the reading counts.      *)

\* parseFloat / parseInt of a column value (a numeric's string, or null) or of a number
parseFloat(x) ==
  IF "t" \in DOMAIN x
  THEN IF IsNum(x) THEN x
       ELSE IF "digits" \in DOMAIN x THEN Num(x.digits)
       ELSE NaN
  ELSE IF IsNull(x) THEN NaN
  ELSE Num(x.v)

\* x || 0
OrZero(x) == IF Falsy(x) THEN Num(0) ELSE x

\* parseFloat(x) >= 85 and parseFloat(x) < 85, x in hundredths
AtLeast85(x) == IF IsNaN(x) THEN FALSE ELSE IF x = Infinity THEN TRUE ELSE x.v >= 8500
Below85(x) == IF IsNaN(x) THEN FALSE ELSE IF x = Infinity THEN FALSE ELSE x.v < 8500

\* As formatPerformanceData, but healthy from 90 on.
formatPerformanceDataFrom90(data) ==
  [vehicleId |-> data.vehicle_id,
   performance |->
     [totalEnergyConsumedAc |-> OrZero(parseFloat(data.total_ac_consumed)),
      totalEnergyDeliveredDc |-> OrZero(parseFloat(data.total_dc_delivered)),
      efficiencyRatio |-> OrZero(parseFloat(data.efficiency_ratio)),
      averageBatteryTemp |-> OrZero(parseFloat(data.avg_battery_temp))],
   metadata |->
     [vehicleReadings |-> OrZero(parseFloat(data.vehicle_readings)),
      meterReadings |-> OrZero(parseFloat(data.meter_readings)),
      firstReading |-> data.first_reading,
      lastReading |-> data.last_reading,
      computedAt |-> data.computed_at,
      timeWindow |-> "24 hours"],
   healthCheck |->
     [status |-> IF LET x == parseFloat(data.efficiency_ratio)
                    IN IF IsNaN(x) THEN FALSE ELSE IF x = Infinity THEN TRUE ELSE x.v >= 9000
                 THEN "healthy" ELSE "warning",
      message |-> IF Below85(parseFloat(data.efficiency_ratio))
                  THEN "Efficiency below 85% - investigate for hardware fault or energy leakage"
                  ELSE "Normal operation"]]

formatPerformanceData(data) ==
  [vehicleId |-> data.vehicle_id,
   performance |->
     [totalEnergyConsumedAc |-> OrZero(parseFloat(data.total_ac_consumed)),
      totalEnergyDeliveredDc |-> OrZero(parseFloat(data.total_dc_delivered)),
      efficiencyRatio |-> OrZero(parseFloat(data.efficiency_ratio)),
      averageBatteryTemp |-> OrZero(parseFloat(data.avg_battery_temp))],
   metadata |->
     [vehicleReadings |-> OrZero(parseFloat(data.vehicle_readings)),
      meterReadings |-> OrZero(parseFloat(data.meter_readings)),
      firstReading |-> data.first_reading,
      lastReading |-> data.last_reading,
      computedAt |-> data.computed_at,
      timeWindow |-> "24 hours"],
   healthCheck |->
     [status |-> IF AtLeast85(parseFloat(data.efficiency_ratio)) THEN "healthy" ELSE "warning",
      message |-> IF Below85(parseFloat(data.efficiency_ratio))
                  THEN "Efficiency below 85% - investigate for hardware fault or energy leakage"
                  ELSE "Normal operation"]]

\* (totalDc / totalAc * 100).toFixed(2), read back as a number of hundredths
RatioToFixed2(totalDc, totalAc) ==
  IF totalAc.v = 0 THEN (IF totalDc.v = 0 THEN NaN ELSE Infinity)
  ELSE IF totalDc.v = 0 THEN Num(0)
  ELSE Num(ToFixed2(DblTimes100(DblDiv(DblOfDecimal(totalDc.v), DblOfDecimal(totalAc.v)))))

\* As efficiencyRatio of computePerformanceOnDemand, without the totalAc > 0 test.
efficiencyRatioUnguarded(totalDc, totalAc) == RatioToFixed2(totalDc, totalAc)

\* const efficiencyRatio = totalAc > 0 ? (totalDc / totalAc * 100).toFixed(2) : 0
efficiencyRatio(totalDc, totalAc) ==
  IF totalAc.v > 0 THEN RatioToFixed2(totalDc, totalAc) ELSE Num(0)

\* An aggregate over no row is null.
Aggregate(rows, value) == IF rows = {} THEN Null ELSE Cell(value)

computePerformanceOnDemand(vehicleId) ==
  LET timeWindow == now - Window
      v == {r \in vehHist : r.vehicle_id = vehicleId /\ r.recorded_at >= timeWindow}
      m == {r \in meterHist : r.meter_id = vehicleId /\ r.recorded_at >= timeWindow}
      totalDc == OrZero(parseFloat(Aggregate(v, SumOf(v, "kwh_delivered_dc"))))
      totalAc == OrZero(parseFloat(Aggregate(m, SumOf(m, "kwh_consumed_ac"))))
  IN formatPerformanceData(
       [vehicle_id |-> vehicleId,
        total_dc_delivered |-> totalDc,
        total_ac_consumed |-> totalAc,
        efficiency_ratio |-> efficiencyRatio(totalDc, totalAc),
        avg_battery_temp |-> OrZero(parseFloat(Aggregate(v, AvgOf(v, "battery_temp")))),
        vehicle_readings |-> Num(Cardinality(v)),
        meter_readings |-> Num(Cardinality(m)),
        first_reading |-> Aggregate(v, MinAt(v)),
        last_reading |-> Aggregate(v, MaxAt(v)),
        computed_at |-> Cell(now)])

\* A row of the materialized view as the driver returns it.
ResultRow(r) ==
  [vehicle_id |-> r.vehicle_id,
   total_dc_delivered |-> Cell(r.total_dc_delivered),
   total_ac_consumed |-> Cell(r.total_ac_consumed),
   efficiency_ratio |-> Cell(r.efficiency_ratio),
   avg_battery_temp |-> Cell(r.avg_battery_temp),
   vehicle_readings |-> Cell(r.vehicle_readings),
   meter_readings |-> Cell(r.meter_readings),
   first_reading |-> Cell(r.first_reading),
   last_reading |-> Cell(r.last_reading),
   computed_at |-> Cell(r.computed_at)]

\* As GetVehiclePerformance, but keeping the row computed on demand in the view.
GetVehiclePerformanceCaching(vehicleId) ==
  LET mvResult == {r \in summary : r.vehicle_id = vehicleId}
  IN /\ budget > 0 /\ budget' = budget - 1
     /\ view' = IF mvResult # {}
                THEN [op |-> "performance", status |-> 200, path |-> "summary",
                      data |-> formatPerformanceData(ResultRow(CHOOSE r \in mvResult : TRUE))]
                ELSE [op |-> "performance", status |-> 200, path |-> "fallback",
                      data |-> computePerformanceOnDemand(vehicleId)]
     /\ summary' = IF mvResult # {} THEN summary
                   ELSE MergeInto(summary, vehicle_24h_performance(now), vehicleId)
     /\ refresh' = Served(refresh)
     /\ UNCHANGED <<store, meterSeq, vehSeq, tx, pool, now, faults, applied, attempted>>

\* As GetVehiclePerformance, but computing on demand as well when the row of
\* the view counts other readings than the history holds.
GetVehiclePerformanceIfCurrent(vehicleId) ==
  LET mvResult == {r \in summary : r.vehicle_id = vehicleId}
      current == mvResult \cap {[r EXCEPT !.computed_at = q.computed_at] :
                                 r \in vehicle_24h_performance(now), q \in mvResult}
  IN /\ budget > 0 /\ budget' = budget - 1
     /\ view' = IF current # {}
                THEN [op |-> "performance", status |-> 200, path |-> "summary",
                      data |-> formatPerformanceData(ResultRow(CHOOSE r \in current : TRUE))]
                ELSE [op |-> "performance", status |-> 200, path |-> "fallback",
                      data |-> computePerformanceOnDemand(vehicleId)]
     /\ refresh' = Served(refresh)
     /\ UNCHANGED <<store, meterSeq, vehSeq, tx, pool, summary, now, faults, applied, attempted>>

\* GET /v1/analytics/performance/:vehicleId
GetVehiclePerformance(vehicleId) ==
  LET mvResult == {r \in summary : r.vehicle_id = vehicleId}
  IN /\ budget > 0 /\ budget' = budget - 1
     /\ view' = IF mvResult # {}
                THEN [op |-> "performance", status |-> 200, path |-> "summary",
                      data |-> formatPerformanceData(ResultRow(CHOOSE r \in mvResult : TRUE))]
                ELSE [op |-> "performance", status |-> 200, path |-> "fallback",
                      data |-> computePerformanceOnDemand(vehicleId)]
     /\ refresh' = Served(refresh)
     /\ UNCHANGED <<store, meterSeq, vehSeq, tx, pool, summary, now, faults, applied, attempted>>

\* A row of the alerts query as getEfficiencyAlerts maps it.
AlertView(row) ==
  [vehicleId |-> row.vehicle_id,
   efficiencyRatio |-> parseFloat(Cell(row.efficiency_ratio)),
   totalAcConsumed |-> parseFloat(Cell(row.total_ac_consumed)),
   totalDcDelivered |-> parseFloat(Cell(row.total_dc_delivered)),
   avgBatteryTemp |-> parseFloat(Cell(row.avg_battery_temp)),
   alert |-> "Low efficiency - possible hardware fault or energy leakage"]

\* The orders ORDER BY efficiency_ratio ASC may return the rows in.
Ascending(rows) ==
  {s \in [1..Cardinality(rows) -> rows] :
     \A i, j \in 1..Cardinality(rows) :
       i < j => s[i] # s[j] /\ s[i].efficiency_ratio <= s[j].efficiency_ratio}

\* As getEfficiencyAlerts, but WHERE efficiency_ratio <= $1.
getEfficiencyAlertsUpTo(rows, threshold) ==
  LET hit == {r \in rows : r.efficiency_ratio > 0 /\ r.efficiency_ratio <= threshold.v}
  IN {[k \in DOMAIN s |-> AlertView(s[k])] : s \in Ascending(hit)}

\* The lists getEfficiencyAlerts(threshold) may return when the view holds rows;
\* threshold counts hundredths.
getEfficiencyAlerts(rows, threshold) ==
  LET hit == {r \in rows : r.efficiency_ratio > 0 /\ r.efficiency_ratio < threshold.v}
  IN {[k \in DOMAIN s |-> AlertView(s[k])] : s \in Ascending(hit)}

\* Values of the query parameter threshold: absent, "0" and "9.38".
QueryThresholds == {Undef, NumStr(0), NumStr(938)}

\* GET /v1/analytics/alerts?threshold=
GetEfficiencyAlerts(q) ==
  LET threshold == IF Falsy(parseFloat(q)) THEN Num(8500) ELSE parseFloat(q)
  IN /\ budget > 0 /\ budget' = budget - 1
     /\ \E alerts \in getEfficiencyAlerts(summary, threshold) :
          view' = [op |-> "alerts", status |-> 200, success |-> TRUE,
                   threshold |-> threshold, count |-> Len(alerts), alerts |-> alerts]
     /\ refresh' = Served(refresh)
     /\ UNCHANGED <<store, meterSeq, vehSeq, tx, pool, summary, now, faults, applied, attempted>>

\* SELECT * FROM get_system_stats(), as getSystemStats returns it
getSystemStats ==
  LET total_meters == Cardinality({s.meter_id : s \in meterStatus})
      total_vehicles == Cardinality({s.vehicle_id : s \in vehStatus})
      meter_history_count == Cardinality(meterHist)
      vehicle_history_count == Cardinality(vehHist)
  IN [totalMeters |-> total_meters,
      totalVehicles |-> total_vehicles,
      meterHistoryCount |-> meter_history_count,
      vehicleHistoryCount |-> vehicle_history_count,
      totalRecords |-> meter_history_count + vehicle_history_count,
      estimatedDailyRecords |-> (total_meters + total_vehicles) * 1440]

\* GET /v1/analytics/stats
GetSystemStats ==
  /\ budget > 0 /\ budget' = budget - 1
  /\ view' = [op |-> "stats", status |-> 200, success |-> TRUE, data |-> getSystemStats]
  /\ UNCHANGED <<store, meterSeq, vehSeq, tx, pool, summary, now, faults, refresh,
                 applied, attempted>>

NoView == [op |-> "none"]

-----------------------------------------------------------------------------

Init ==
  /\ meterHist = {} /\ vehHist = {}
  /\ meterSeq = 0 /\ vehSeq = 0
  /\ meterStatus = {} /\ vehStatus = {}
  /\ tx = [t \in Slots |-> IdleTx]
  /\ pool = 0
  /\ summary = {}
  /\ now = 1
  /\ view = NoView
  /\ faults = MaxFaults
  /\ budget = MaxReqs
  /\ refresh = NoRefresh
  /\ applied = [cls \in {"meter", "vehicle"} |-> [id \in Ids |-> NoWrite]]
  /\ attempted = {}

Next ==
  \/ \E body \in Bodies : IngestTelemetry(body)
  \/ \E batchData \in BatchBodies : IngestBatch(batchData)
  \/ \E t \in Slots : InsertHistory(t)
  \/ \E t \in Slots : SelectPrevStatus(t)
  \/ \E t \in Slots : UpsertStatus(t)
  \/ \E t \in Slots : Commit(t)
  \/ \E t \in Slots : StatementFails(t)
  \/ \E t \in Slots : RollbackFails(t)
  \/ \E t \in Slots : DeadlockDetected(t)

Spec == Init /\ [][Next]_vars

\* Requests arriving one at a time and meeting no store failure, with the
\* analytics and maintenance operations and the passing of time in between;
\* the reads of the view also arrive while it is being refreshed.
OneByOne == FreeSlots = Slots

\* No service call is in progress but the second of a batch request whose
\* first one has committed or failed, and it stands before its COMMIT.  The
\* refresh reads committed rows only, so that the steps of a call before its
\* commit make no difference to it: its start is placed between the commits.
BetweenCommits ==
  \A t \in Slots :
    \/ Free(t)
    \/ tx[t].pc = "settled"
    \/ tx[t].pc = "commit" /\ tx[t].peer # 0 /\ tx[tx[t].peer].pc = "settled"
Quiet == OneByOne /\ refresh.pc = "idle"

\* The ingestion requests that arrive between the analytics operations.
OpsBodies ==
  {VehiclePayload("D1", 3999600, 500000, 2500000, 0),
   VehiclePayload("D1", 4000000, 30000, 2700000, 1)}

OpsBatchBodies ==
  {<<MeterPayload("D2", 1250000, 11000000, 1), MeterPayload("D1", 5, 21999600, 0),
     VehiclePayload("D2", 5500000, 1100000, -500000, 1)>>,
   <<MeterPayload("D1", 320000, 23000000, 1), VehiclePayload("D1", 4000000, 30000, 2700000, 1),
     MeterPayload("D2", 1250000, 11000000, 1), VehiclePayload("D2", 5500000, 80000, -500000, 1)>>}

NextOps ==
  \/ \E body \in OpsBodies : Quiet /\ IngestTelemetry(body)
  \/ \E batchData \in OpsBatchBodies : Quiet /\ IngestBatch(batchData)
  \/ \E t \in Slots : InsertHistory(t)
  \/ \E t \in Slots : SelectPrevStatus(t)
  \/ \E t \in Slots : UpsertStatus(t)
  \/ \E t \in Slots : Commit(t)
  \/ Quiet /\ Tick
  \/ BetweenCommits /\ RefreshBegin
  \/ \E id \in Ids : RefreshMerge(id)
  \/ RefreshCommit
  \/ RefreshFails
  \/ \E retention_days \in RetentionDays : Quiet /\ CleanupOldData(retention_days)
  \/ \E vehicleId \in Ids : OneByOne /\ GetVehiclePerformance(vehicleId)
  \/ \E q \in QueryThresholds : OneByOne /\ GetEfficiencyAlerts(q)
  \/ OneByOne /\ GetSystemStats

SpecOps == Init /\ [][NextOps]_vars

-----------------------------------------------------------------------------
(* The functions of the ingestion path applied to one argument each: the   *)
(* classifier on payloads of every presence pattern, and the entry checks  *)
(* of the batch operations on arguments that are or are not arrays.        *)

\* What a field of a payload may hold: nothing, null, a number, a string.
FieldValues == {Undef, JsNull, Num(0), Str("x")}

ClassifierInputs ==
  {[meterId |-> a, kwhConsumedAc |-> b, voltage |-> c,
    vehicleId |-> d, soc |-> e, kwhDeliveredDc |-> f,
    batteryTemp |-> Undef, timestamp |-> Undef] :
     a \in FieldValues, b \in FieldValues, c \in FieldValues,
     d \in FieldValues, e \in FieldValues, f \in FieldValues}

BatchInputs ==
  {Undef, JsNull, Num(0), Num(5), Str(""), Str("ab"),
   JsObject(MeterPayload("D1", 320000, 23000000, 1)),
   JsArray(<<>>), JsArray(<<MeterPayload("D1", 320000, 23000000, 1)>>)}

Proceeds == [state |-> "proceeds", count |-> 0, message |-> ""]

\* The start of meterService.ingestBatch and vehicleService.ingestBatch: the
\* outcome of the call, or Proceeds when it goes on to its transaction.
ingestBatch(batch) ==
  IF Falsy(batch) \/ (IsArray(batch) /\ Len(batch.items) = 0) THEN Fulfilled(0)
  ELSE IF ~IsArray(batch) THEN Rejected("batch.forEach is not a function")
  ELSE Proceeds

\* The start of IngestionController.ingestBatch, likewise.
ingestBatchRequest(batchData) ==
  IF ~IsArray(batchData) \/ Len(batchData.items) = 0
  THEN Rejected("Invalid batch data: expected non-empty array")
  ELSE Proceeds

Calls ==
  {[op |-> "call", fn |-> "identifyTelemetryType", arg |-> data] : data \in ClassifierInputs}
  \cup {[op |-> "call", fn |-> fn, arg |-> batch] :
          fn \in {"meterService.ingestBatch", "vehicleService.ingestBatch",
                  "IngestionController.ingestBatch"},
          batch \in BatchInputs}

InitCalls ==
  /\ meterHist = {} /\ vehHist = {}
  /\ meterSeq = 0 /\ vehSeq = 0
  /\ meterStatus = {} /\ vehStatus = {}
  /\ tx = [t \in Slots |-> IdleTx]
  /\ pool = 0
  /\ summary = {}
  /\ now = 1
  /\ view \in Calls
  /\ faults = MaxFaults
  /\ budget = MaxReqs
  /\ refresh = NoRefresh
  /\ applied = [cls \in {"meter", "vehicle"} |-> [id \in Ids |-> NoWrite]]
  /\ attempted = {}

Returns(value) ==
  /\ view' = [op |-> "return", fn |-> view.fn, arg |-> view.arg, value |-> value]
  /\ UNCHANGED <<store, meterSeq, vehSeq, tx, pool, summary, now, faults, budget, refresh,
                 applied, attempted>>

Classify ==
  /\ view.op = "call" /\ view.fn = "identifyTelemetryType"
  /\ Returns(identifyTelemetryType(view.arg))

ServiceBatchStarts ==
  /\ view.op = "call"
  /\ view.fn \in {"meterService.ingestBatch", "vehicleService.ingestBatch"}
  /\ Returns(ingestBatch(view.arg))

BatchRequestStarts ==
  /\ view.op = "call" /\ view.fn = "IngestionController.ingestBatch"
  /\ Returns(ingestBatchRequest(view.arg))

NextCalls == Classify \/ ServiceBatchStarts \/ BatchRequestStarts

SpecCalls == InitCalls /\ [][NextCalls]_vars

-----------------------------------------------------------------------------
(* The meter service alone: single ingests and batches of valid meter      *)
(* readings of every order and repetition, arriving one at a time and      *)
(* meeting no store failure.                                               *)

MaxBatch == 2

MeterBatches == UNION {[1..n -> MeterBodies] : n \in 1..MaxBatch}

\* The history, the status table and the sequence after MeterService.ingest
\* of meterData has run and committed on s with nothing else in progress.
ingest(s, meterData) ==
  [hist |-> s.hist \cup {MeterHistoryRow(meterData, s.seq + 1)},
   status |-> UpsertMeterStatus(s.status, MeterStatusRow(meterData)),
   seq |-> s.seq + 1]

NextMeter ==
  \/ \E body \in MeterBodies : OneByOne /\ IngestTelemetry(body)
  \/ \E batchData \in MeterBatches : OneByOne /\ IngestBatch(batchData)
  \/ \E t \in Slots : InsertHistory(t)
  \/ \E t \in Slots : UpsertStatus(t)
  \/ \E t \in Slots : Commit(t)

SpecMeter == Init /\ [][NextMeter]_vars

-----------------------------------------------------------------------------
(* Properties of the ingestion paths.                                      *)

\* The step is one of the service call on slot t.
StepOf(t) == InTx(t) /\ tx'[t] # tx[t]

MeterRowsOf(table, id) == {s \in table : s.meter_id = id}
VehicleRowsOf(table, id) == {s \in table : s.vehicle_id = id}
Newest(rows) == CHOOSE r \in rows : \A q \in rows : q.id <= r.id

\* The step adds the history rows R of a meter transaction together with the
\* status of each device R names, and nothing else.
MeterRowsLand(R) ==
  /\ meterHist' = meterHist \cup R /\ R \cap meterHist = {}
  /\ \A id \in Ids :
       LET mine == MeterRowsOf(R, id) IN
       IF mine = {} THEN MeterRowsOf(meterStatus', id) = MeterRowsOf(meterStatus, id)
       ELSE \E s \in meterStatus' :
              /\ MeterRowsOf(meterStatus', id) = {s}
              /\ s.kwh_consumed_ac = Newest(mine).kwh_consumed_ac
              /\ s.voltage = Newest(mine).voltage
              /\ s.last_updated = Newest(mine).recorded_at
  /\ UNCHANGED <<vehHist, vehStatus>>

VehicleRowsLand(R) ==
  /\ vehHist' = vehHist \cup R /\ R \cap vehHist = {}
  /\ \A id \in Ids :
       LET mine == VehicleRowsOf(R, id) IN
       IF mine = {} THEN VehicleRowsOf(vehStatus', id) = VehicleRowsOf(vehStatus, id)
       ELSE \E s \in vehStatus' :
              /\ VehicleRowsOf(vehStatus', id) = {s}
              /\ s.soc = Newest(mine).soc
              /\ s.kwh_delivered_dc = Newest(mine).kwh_delivered_dc
              /\ s.battery_temp = Newest(mine).battery_temp
              /\ s.last_updated = Newest(mine).recorded_at
  /\ UNCHANGED <<meterHist, meterStatus>>

\* Every step of the call on slot t leaves the four tables alone, but the one
\* that fulfils it, which adds the history rows and the status together.
AllOrNothing(t) ==
  IF tx'[t].out.state = "fulfilled"
  THEN /\ Cardinality(tx[t].hist) = Len(tx[t].args)
       /\ IF tx[t].cls = "meter" THEN MeterRowsLand(tx[t].hist) ELSE VehicleRowsLand(tx[t].hist)
  ELSE UNCHANGED store

\* C1: a single-reading ingest is all-or-nothing. Each step of the service call,
\* whichever statement fails, leaves the history and status tables as they are,
\* except the commit, which adds the one history row and the device's status
\* row with that row's fields in the same step.
C1_SingleIngestAllOrNothing ==
  [][\A t \in Slots : (~tx[t].batch /\ StepOf(t)) => AllOrNothing(t)]_vars

\* C1 witness: a single meter ingest failed at COMMIT, after its insert and its
\* upsert had run, and neither table holds anything of it.
C1_Witness ==
  \E t \in Slots :
    /\ ~tx[t].batch /\ tx[t].pc = "done" /\ tx[t].cls = "meter"
    /\ tx[t].out = Rejected("store failure") /\ tx[t].i = 2
    /\ meterSeq = 1 /\ meterHist = {} /\ meterStatus = {}

\* C2: each device has at most one status row, and the row holds the fields of
\* the write that was committed last for the device, whatever its timestamp.
C2_StatusIsLastAppliedWrite ==
  \A id \in Ids :
    /\ Cardinality(MeterRowsOf(meterStatus, id)) <= 1
    /\ Cardinality(VehicleRowsOf(vehStatus, id)) <= 1
    /\ applied.meter[id].set <=> MeterRowsOf(meterStatus, id) # {}
    /\ applied.vehicle[id].set <=> VehicleRowsOf(vehStatus, id) # {}
    /\ \A s \in MeterRowsOf(meterStatus, id) : s = MeterStatusRow(applied.meter[id].body)
    /\ \A s \in VehicleRowsOf(vehStatus, id) :
         s = VehicleStatusRow(applied.vehicle[id].body, s.is_charging)

\* C2 witness: meter D1's reading of instant 0 was applied after its reading of
\* instant 1, and the status row is the one of instant 0.
C2_Witness ==
  /\ \E h \in meterHist : h.meter_id = "D1" /\ h.recorded_at = 1
  /\ \E s \in meterStatus : s.meter_id = "D1" /\ s.last_updated = 0

\* The meter reading p lands in the step as the values v of kwhConsumedAc and voltage.
MeterIngested(p, kwh, volt) ==
  /\ meterHist \subseteq meterHist'
  /\ \E r \in meterHist' \ meterHist :
       /\ meterHist' \ meterHist = {r}
       /\ r.meter_id = p.meterId.s /\ r.recorded_at = p.timestamp.iso
       /\ r.kwh_consumed_ac = kwh /\ r.voltage = volt
  /\ MeterRowsOf(meterStatus', p.meterId.s) =
       {[meter_id |-> p.meterId.s, kwh_consumed_ac |-> kwh, voltage |-> volt,
         last_updated |-> p.timestamp.iso]}

MeterIngestFulfils(t) ==
  ~tx[t].batch /\ tx[t].cls = "meter" /\ StepOf(t) /\ tx'[t].out.state = "fulfilled"

\* C3 (amended): a successful single meter ingest adds exactly one history row
\* for the meter with the submitted instant and the submitted kwhConsumedAc and
\* voltage rounded to 4 and 2 decimal places, leaves the other history rows as
\* they are, and leaves the meter's status row equal to those values.
C3_MeterIngestStoresRounded ==
  [][\A t \in Slots : MeterIngestFulfils(t) =>
       LET p == tx[t].args[1]
       IN MeterIngested(p, RoundTo(p.kwhConsumedAc.v, Scale4), RoundTo(p.voltage.v, Scale2))]_vars

\* C3 (as claimed): the history row and the status row hold the submitted
\* kwhConsumedAc and voltage exactly.
C3_MeterIngestStoresExactly ==
  [][\A t \in Slots : MeterIngestFulfils(t) =>
       LET p == tx[t].args[1]
       IN MeterIngested(p, p.kwhConsumedAc.v, p.voltage.v)]_vars

\* C3 witness: the reading of 0.00005 kWh at 219.996 V was ingested on its own
\* and is stored as 0.0001 kWh at 220.00 V.
C3_Witness ==
  /\ \E t \in Slots :
       /\ ~tx[t].batch /\ tx[t].pc = "done" /\ tx[t].out.state = "fulfilled"
       /\ tx[t].args = <<MeterPayload("D1", 5, 21999600, 0)>>
  /\ \E r \in meterHist : r.kwh_consumed_ac = 10 /\ r.voltage = 22000000
  /\ \E s \in meterStatus : s.kwh_consumed_ac = 10 /\ s.voltage = 22000000

\* C5: a per-class batch write is all-or-nothing. Each step of a batch call,
\* whichever statement fails, leaves the tables as they are, except the commit,
\* which adds all of the batch's history rows and, for each device of the
\* batch, the status of its last reading, in one step.
C5_BatchAllOrNothing ==
  [][\A t \in Slots : (tx[t].batch /\ StepOf(t)) => AllOrNothing(t)]_vars

\* C5 witness: a meter batch of two readings failed after its multi-row insert
\* and its first upsert, and neither table holds anything of it.
C5_Witness ==
  \E t \in Slots :
    /\ tx[t].batch /\ tx[t].pc \in {"done", "settled"} /\ tx[t].cls = "meter"
    /\ Len(tx[t].args) = 2 /\ tx[t].i = 2
    /\ tx[t].out = Rejected("store failure")
    /\ meterSeq = 2 /\ meterHist = {} /\ meterStatus = {}

\* The rows of the call on slot t that its table holds.
Landed(t) == tx[t].hist \cap (IF tx[t].cls = "meter" THEN meterHist ELSE vehHist)

\* The count the response reports for the group of the call on slot t.
Reported(t) == IF tx[t].cls = "meter" THEN tx[t].resp.meters ELSE tx[t].resp.vehicles

Elems(seq) == {seq[k] : k \in DOMAIN seq}

\* C6: the two groups of a mixed batch commit independently. Once the request
\* is answered, the answer is the 201 one; a group that succeeded has all its
\* rows in its history table and its size as its count, whether or not the
\* other group failed; a group that failed has none, 0 as its count and its
\* failure message in errors.
C6_MixedBatchGroupsIndependent ==
  \A t \in Slots :
    (tx[t].batch /\ tx[t].peer # 0 /\ tx[t].pc = "done") =>
      /\ tx[t].resp.status = 201 /\ tx[t].resp.success
      /\ tx[t].resp.total = tx[t].resp.meters + tx[t].resp.vehicles
      /\ tx[t].out.state = "fulfilled" =>
           /\ Landed(t) = tx[t].hist /\ Cardinality(tx[t].hist) = Len(tx[t].args)
           /\ Reported(t) = Len(tx[t].args)
      /\ tx[t].out.state = "rejected" =>
           /\ Landed(t) = {}
           /\ Reported(t) = 0
           /\ tx[t].out.message \in Elems(tx[t].resp.errors)

\* C6 witness: a mixed batch was answered after its meter group failed and its
\* vehicle group committed its two readings.
C6_Witness ==
  \E t \in Slots :
    /\ tx[t].batch /\ tx[t].peer # 0 /\ tx[t].pc = "done" /\ tx[t].cls = "vehicle"
    /\ tx[t].out = Fulfilled(2) /\ tx[t].hist \subseteq vehHist /\ tx[t].hist # {}
    /\ tx[tx[t].peer].out.state = "rejected"
    /\ tx[t].resp.vehicles = 2 /\ tx[t].resp.meters = 0 /\ Len(tx[t].resp.errors) = 1

\* C7: a status row always equals, in every field, the row image one of the
\* attempted status writes carried; no row mixes fields of two writes.
C7_StatusIsOneAttemptedWrite ==
  /\ \A s \in meterStatus : s \in attempted
  /\ \A s \in vehStatus : s \in attempted

\* C7 witness: two writers of one vehicle overlapped: the one that inserted its
\* history row first is still about to commit its different status write, the
\* one that inserted later has committed, and its write is the status row.
C7_Witness ==
  \E t, u \in Slots :
    /\ tx[t].cls = "vehicle" /\ tx[u].cls = "vehicle"
    /\ tx[t].pc = "commit" /\ tx[u].pc = "done" /\ tx[u].out.state = "fulfilled"
    /\ \E a \in tx[t].hist, b \in tx[u].hist :
         a.vehicle_id = b.vehicle_id /\ a.id < b.id /\ a.recorded_at # b.recorded_at
    /\ \E k \in DOMAIN tx[t].stat, s \in vehStatus :
         /\ s.vehicle_id = tx[t].stat[k].vehicle_id
         /\ s.kwh_delivered_dc # tx[t].stat[k].kwh_delivered_dc
         /\ s.battery_temp # tx[t].stat[k].battery_temp

-----------------------------------------------------------------------------
(* Properties of the operations taken one at a time.                       *)

\* A single vehicle ingest is fulfilled in the step.
VehicleIngestFulfils(t) ==
  ~tx[t].batch /\ tx[t].cls = "vehicle" /\ StepOf(t) /\ tx'[t].out.state = "fulfilled"

\* The step answers isCharging = b and stores it in the vehicle's status row.
AnswersAndStores(t, b) ==
  /\ tx'[t].resp.status = 201 /\ tx'[t].resp.isCharging = b
  /\ \A s \in VehicleRowsOf(vehStatus', tx[t].args[1].vehicleId.s) : s.is_charging = b

\* C4: single ingests of one vehicle with strictly increasing soc: the first
\* ingest ever made for the vehicle answers and stores isCharging = false, and
\* an ingest whose soc is greater than the soc of the single ingest applied
\* before it answers and stores isCharging = true.
C4_RisingSocIsCharging ==
  [][\A t \in Slots : VehicleIngestFulfils(t) =>
       LET p == tx[t].args[1]
           prior == applied.vehicle[p.vehicleId.s]
       IN /\ ~prior.set => AnswersAndStores(t, FALSE)
          /\ (prior.set /\ ~prior.batch /\ p.soc.v > prior.body.soc.v) =>
               AnswersAndStores(t, TRUE)]_vars

\* The step is one of the maintenance job or of a read of the analytics: it
\* leaves the service calls, the clock and the refresh in progress as they are.
JobOrReadStep ==
  UNCHANGED <<tx, now>> /\ [refresh' EXCEPT !.reads = 0] = [refresh EXCEPT !.reads = 0]

\* The step is a call of cleanup_old_data that deletes rows older than cutoff.
PurgeStep(cutoff) ==
  /\ JobOrReadStep /\ budget' = budget /\ view'.op = "cleanup"
  /\ \E retention_days \in RetentionDays : cutoff = now - retention_days

\* Every row of hist is in after unchanged, or the step is a purge with a
\* cutoff the row is older than, which removes it.
AppendOnly(hist, after) ==
  \A r \in hist :
    \/ r \in after
    \/ /\ \E cutoff \in {now - d : d \in RetentionDays} :
            PurgeStep(cutoff) /\ r.recorded_at < cutoff
       /\ \A q \in after : q.id # r.id

\* C8: history rows are append-only. In every step (ingest, batch ingest,
\* query, refresh, retention purge, passing of time) each history row stays as
\* it is, unless the step is the retention purge and the row is older than its
\* cutoff, in which case the row is gone.
C8_HistoryAppendOnly ==
  [][AppendOnly(meterHist, meterHist') /\ AppendOnly(vehHist, vehHist')]_vars

\* C8 witness: the purge has just removed the one meter row older than its
\* cutoff and kept the other one.
C8_Witness ==
  /\ view.op = "cleanup" /\ view.meter_deleted = 1
  /\ meterSeq = 2 /\ Cardinality(meterHist) = 1
  /\ \A r \in meterHist : r.recorded_at = 1

\* The step answers a performance request by the on-demand computation.
FallbackStep ==
  JobOrReadStep /\ budget' = budget - 1 /\ view'.op = "performance" /\ view'.path = "fallback"

\* C9: for the same history and the same window start, the on-demand
\* computation answers, for a vehicle with a vehicle reading in the window,
\* the totals, the reading counts and the efficiencyRatio that the row of a
\* summary refreshed at that moment gives.
C9_FallbackEqualsFreshSummary ==
  [][FallbackStep =>
       \A r \in vehicle_24h_performance(now) :
         r.vehicle_id = view'.data.vehicleId =>
           LET fresh == formatPerformanceData(ResultRow(r))
               ondemand == view'.data
           IN /\ ondemand.performance.totalEnergyDeliveredDc
                   = fresh.performance.totalEnergyDeliveredDc
              /\ ondemand.performance.totalEnergyConsumedAc
                   = fresh.performance.totalEnergyConsumedAc
              /\ ondemand.metadata.vehicleReadings = fresh.metadata.vehicleReadings
              /\ ondemand.metadata.meterReadings = fresh.metadata.meterReadings
              /\ ondemand.performance.efficiencyRatio = fresh.performance.efficiencyRatio]_vars

\* C10: the efficiency ratio is exactly 0 whenever the total AC consumed is 0:
\* in every row of the summary, and in every answer of getVehiclePerformance,
\* from the summary or computed on demand, with or without vehicle readings.
C10_ZeroAcGivesZeroRatio ==
  /\ \A r \in summary : r.total_ac_consumed = 0 => r.efficiency_ratio = 0
  /\ view.op = "performance" =>
       /\ view.status = 200
       /\ view.data.performance.totalEnergyConsumedAc = Num(0) =>
            view.data.performance.efficiencyRatio = Num(0)

\* C10 witness: the on-demand answer for a vehicle with DC delivered and no
\* meter reading has ratio 0.
C10_Witness ==
  /\ view.op = "performance" /\ view.path = "fallback"
  /\ view.data.metadata.vehicleReadings = Num(1)
  /\ view.data.metadata.meterReadings = Num(0)
  /\ view.data.performance.totalEnergyDeliveredDc.v > 0
  /\ view.data.performance.totalEnergyConsumedAc = Num(0)
  /\ view.data.performance.efficiencyRatio = Num(0)

-----------------------------------------------------------------------------
(* Properties of the alerts, the refresh and the retention purge.          *)

\* The step answers an alerts request.
AlertsStep == JobOrReadStep /\ budget' = budget - 1 /\ view'.op = "alerts"

\* The summary rows whose ratio is above 0 and below threshold, in hundredths.
BelowThreshold(rows, threshold) ==
  {r \in rows : r.efficiency_ratio > 0 /\ r.efficiency_ratio < threshold}

\* C11: whatever threshold getEfficiencyAlerts is called with and whatever the
\* summary holds, the list names exactly the summary vehicles whose ratio is
\* strictly above 0 and strictly below the threshold, each once and with its
\* summary ratio, in ascending order of ratio; a vehicle whose ratio is 0 or
\* at least the threshold is not in it.
C11_AlertsAreRowsBelowThreshold ==
  [][AlertsStep =>
       LET alerts == view'.alerts
           hit == BelowThreshold(summary, view'.threshold.v)
       IN /\ view'.count = Len(alerts) /\ Len(alerts) = Cardinality(hit)
          /\ {alerts[k].vehicleId : k \in DOMAIN alerts} = {r.vehicle_id : r \in hit}
          /\ \A k \in DOMAIN alerts :
               /\ \E r \in hit : /\ r.vehicle_id = alerts[k].vehicleId
                                  /\ alerts[k].efficiencyRatio = Num(r.efficiency_ratio)
               /\ alerts[k].efficiencyRatio.v > 0
               /\ alerts[k].efficiencyRatio.v < view'.threshold.v
          /\ \A i, j \in DOMAIN alerts :
               i < j => alerts[i].efficiencyRatio.v <= alerts[j].efficiencyRatio.v]_vars

\* C11 witness: the summary holds a vehicle at 9.38 and one at 6.40, and the
\* alerts for threshold 9.38 are the second one alone.
C11_Witness ==
  /\ view.op = "alerts" /\ view.threshold = Num(938) /\ view.count = 1
  /\ view.alerts[1].vehicleId = "D2" /\ view.alerts[1].efficiencyRatio = Num(640)
  /\ \E r \in summary : r.vehicle_id = "D1" /\ r.efficiency_ratio = 938

\* The step answers a read of the view while a refresh is in progress.
ReadDuringRefresh == refresh.pc = "merging" /\ refresh'.reads = refresh.reads + 1

\* The answer of the performance request for vehicleId when the view holds rows.
SeesSummary(rows, answer) ==
  IF SummaryRowsOf(rows, answer.data.vehicleId) = {}
  THEN answer.path = "fallback"
  ELSE /\ answer.path = "summary"
       /\ \E r \in rows : answer.data = formatPerformanceData(ResultRow(r))

\* The answer of the alerts request when the view holds rows.
SeesAlerts(rows, answer) == answer.alerts \in getEfficiencyAlerts(rows, answer.threshold)

\* C12: while a refresh is in progress the view the readers see stays the
\* complete summary of before the refresh, and becomes the complete summary
\* the refresh computed when it commits (it stays as it is when the refresh
\* fails); each getVehiclePerformance and
\* getEfficiencyAlerts answered meanwhile is the answer over one of these two
\* complete summaries; and the refresh in progress keeps neither the read of
\* a vehicle's summary row nor the alerts from being answered.
C12_ReadsSeeOldOrNewSummary ==
  /\ [][/\ refresh'.pc = "merging" => summary' = refresh'.prior
        /\ (refresh.pc = "merging" /\ refresh'.pc = "idle") =>
             summary' = IF view'.status = 200 THEN refresh.rows ELSE refresh.prior
        /\ ReadDuringRefresh =>
             /\ view'.status = 200
             /\ view'.op = "performance" =>
                  SeesSummary(refresh.prior, view') \/ SeesSummary(refresh.rows, view')
             /\ view'.op = "alerts" =>
                  SeesAlerts(refresh.prior, view') \/ SeesAlerts(refresh.rows, view')]_vars
  /\ []((refresh.pc = "merging" /\ budget > 0) =>
          /\ \A vehicleId \in {r.vehicle_id : r \in summary} :
               ENABLED GetVehiclePerformance(vehicleId)
          /\ \A q \in QueryThresholds : ENABLED GetEfficiencyAlerts(q))

\* C12 witness: a refresh that found the view empty has merged one of the two
\* rows it computed, and the alerts request answered since it began saw none.
C12_Witness ==
  /\ refresh.pc = "merging" /\ refresh.reads = 1
  /\ refresh.prior = {} /\ Cardinality(refresh.rows) = 2 /\ Cardinality(refresh.merged) = 1
  /\ view.op = "alerts" /\ view.threshold = Num(8500) /\ view.count = 0

\* C13: a call of the retention purge removes from both history tables
\* exactly the rows whose recorded_at is older than now minus retention_days,
\* returns the two numbers of rows removed, and leaves every status row, every
\* summary row and every history row at or after the cutoff as it is.
C13_PurgeRemovesExactlyOldRows ==
  [][\A retention_days \in RetentionDays : CleanupOldData(retention_days) =>
       LET cutoff == now - retention_days
       IN /\ meterHist' = {r \in meterHist : r.recorded_at >= cutoff}
          /\ vehHist' = {r \in vehHist : r.recorded_at >= cutoff}
          /\ view'.meter_deleted = Cardinality({r \in meterHist : r.recorded_at < cutoff})
          /\ view'.vehicle_deleted = Cardinality({r \in vehHist : r.recorded_at < cutoff})
          /\ UNCHANGED <<meterStatus, vehStatus, summary>>]_vars

\* C13 witness: the purge removed the one vehicle reading older than its
\* cutoff, and the vehicle's status row and summary row of that reading stay.
C13_Witness ==
  /\ view.op = "cleanup" /\ view.vehicle_deleted = 1 /\ view.meter_deleted = 0
  /\ vehSeq = 1 /\ vehHist = {}
  /\ \E s \in vehStatus : s.vehicle_id = "D1" /\ s.last_updated = 0
  /\ \E r \in summary : r.vehicle_id = "D1" /\ r.vehicle_readings = 1

-----------------------------------------------------------------------------
(* Properties of the summary and of the reads that use it.                 *)

\* The step commits a refresh: the view becomes the rows the refresh computed.
RefreshCommits ==
  /\ refresh.pc = "merging" /\ refresh'.pc = "idle"
  /\ view'.op = "refresh" /\ view'.status = 200
  /\ summary' = refresh.rows

\* The step answers a performance request.
PerformanceStep == JobOrReadStep /\ budget' = budget - 1 /\ view'.op = "performance"

\* The step answers a statistics request.
StatsStep == JobOrReadStep /\ budget' = budget - 1 /\ view'.op = "stats"

\* C21: the summary changes only as the effect of a refresh. A step that
\* changes a summary row is the commit of a refresh; the steps of a single
\* ingest and of a batch ingest, the answers of getVehiclePerformance (from
\* the summary or computed on demand), of getEfficiencyAlerts and of
\* getSystemStats, and the retention purge leave every summary row as it is.
C21_SummaryChangesOnlyOnRefresh ==
  [][/\ summary' # summary => RefreshCommits
     /\ (\E t \in Slots : tx'[t] # tx[t]) => summary' = summary
     /\ (PerformanceStep \/ AlertsStep \/ StatsStep) => summary' = summary
     /\ (\E cutoff \in {now - d : d \in RetentionDays} : PurgeStep(cutoff)) =>
          summary' = summary]_vars

\* C21 witness: the refresh ran between the two commits of a batch; the meter
\* readings committed after it and the statistics request answered after
\* that have left the summary row without a meter reading.
C21_Witness ==
  /\ view.op = "stats" /\ view.data.meterHistoryCount = 2
  /\ view.data.vehicleHistoryCount = 1
  /\ \E r \in summary : r.vehicle_id = "D2" /\ r.meter_readings = 0
  /\ \E h \in meterHist : h.meter_id = "D2" /\ h.recorded_at >= now - Window

\* The rows of hist of one device that are in the window of 24 hours.
InWindow(hist, id) ==
  {r \in hist : r.recorded_at >= now - Window
                 /\ (IF "meter_id" \in DOMAIN r THEN r.meter_id ELSE r.vehicle_id) = id}

\* C22: getVehiclePerformance answers from the summary whenever the summary
\* holds a row for the vehicle, with that row's values, whatever the history
\* holds by then; it computes the answer on demand, over the history rows of
\* the last 24 hours, only when the summary holds no row for the vehicle; and
\* it leaves the summary as it is on either path.
C22_PerformanceFromSummaryFirst ==
  [][PerformanceStep =>
       LET id == view'.data.vehicleId
           rows == SummaryRowsOf(summary, id)
           v == InWindow(vehHist, id)
           m == InWindow(meterHist, id)
       IN /\ summary' = summary
          /\ view'.status = 200
          /\ IF rows # {}
             THEN /\ view'.path = "summary"
                  /\ \E r \in rows :
                       /\ view'.data = formatPerformanceData(ResultRow(r))
                       /\ view'.data.performance.efficiencyRatio = Num(r.efficiency_ratio)
                       /\ view'.data.metadata.vehicleReadings = Num(r.vehicle_readings)
                       /\ view'.data.metadata.meterReadings = Num(r.meter_readings)
                       /\ view'.data.metadata.computedAt = Cell(r.computed_at)
             ELSE /\ view'.path = "fallback"
                  /\ view'.data = computePerformanceOnDemand(id)
                  /\ view'.data.metadata.vehicleReadings = Num(Cardinality(v))
                  /\ view'.data.metadata.meterReadings = Num(Cardinality(m))
                  /\ view'.data.performance.totalEnergyDeliveredDc
                       = Num(SumOf(v, "kwh_delivered_dc"))
                  /\ view'.data.performance.totalEnergyConsumedAc
                       = Num(SumOf(m, "kwh_consumed_ac"))]_vars

\* C22 witness: the summary row of D2 was computed before D2's meter reading
\* was committed; the answer is that row, without a meter reading and with
\* ratio 0, while the history of the last 24 hours holds the meter reading.
C22_Witness ==
  /\ view.op = "performance" /\ view.path = "summary" /\ view.data.vehicleId = "D2"
  /\ view.data.metadata.meterReadings = Num(0)
  /\ view.data.performance.efficiencyRatio = Num(0)
  /\ InWindow(meterHist, "D2") # {} /\ InWindow(vehHist, "D2") # {}
  /\ \E r \in summary : r.vehicle_id = "D2" /\ r.meter_readings = 0

BelowMessage == "Efficiency below 85% - investigate for hardware fault or energy leakage"

\* C23: in every answer of getVehiclePerformance, from the summary or
\* computed on demand, healthCheck.status is healthy if and only if the
\* efficiencyRatio answered is at least 85 and warning otherwise, and the
\* message is the below-85 one exactly when the status is warning; an
\* answer without data has ratio 0 and is a warning.
C23_HealthFollowsRatio ==
  view.op = "performance" =>
    LET ratio == view.data.performance.efficiencyRatio
        health == view.data.healthCheck
    IN /\ health.status \in {"healthy", "warning"}
       /\ health.status = "healthy" <=> ratio.v >= 8500
       /\ health.message = BelowMessage <=> health.status = "warning"
       /\ (view.data.metadata.vehicleReadings = Num(0)
            /\ view.data.metadata.meterReadings = Num(0)) =>
            ratio = Num(0) /\ health.status = "warning"

\* C23 witness: the answer computed on demand for a vehicle at 88.00 is healthy.
C23_Witness ==
  /\ view.op = "performance" /\ view.path = "fallback"
  /\ view.data.performance.efficiencyRatio = Num(8800)
  /\ view.data.healthCheck.status = "healthy"
  /\ view.data.healthCheck.message = "Normal operation"

\* C24: a refresh that cannot complete is answered 500 with the error, no
\* other refresh is started in its place, and the summary the readers see
\* after it is the complete summary they saw before the refresh began.
C24_FailedRefreshKeepsSummary ==
  [][(refresh.pc = "merging" /\ refresh'.pc # "merging" /\ ~RefreshCommits) =>
       /\ view'.op = "refresh" /\ view'.status = 500 /\ ~view'.success
       /\ view'.error = "store failure"
       /\ refresh' = NoRefresh
       /\ summary' = refresh.prior /\ summary' = summary]_vars

\* C24 witness: a refresh has failed after merging a row, and the summary is
\* still the one of the refresh before it, which the history has outgrown.
C24_Witness ==
  /\ view.op = "refresh" /\ view.status = 500 /\ refresh.pc = "idle"
  /\ summary # {} /\ summary # vehicle_24h_performance(now)
  /\ \A r \in summary : r.computed_at < now

-----------------------------------------------------------------------------
(* Properties of the validation and error paths of the ingestion.          *)

Present(x) == x.t # "undefined"
NonEmptyString(x) == IsPlainStr(x) /\ x.s # ""
NumberFrom(x, low) == IsNum(x) /\ "v" \in DOMAIN x /\ x.v >= low

\* The reading satisfies what the contract declares for a meter reading.
DeclaredMeter(p) ==
  /\ NonEmptyString(p.meterId)
  /\ NumberFrom(p.kwhConsumedAc, 0) /\ NumberFrom(p.voltage, 0)
  /\ IsIso(p.timestamp)

\* The reading satisfies what the contract declares for a vehicle reading.
DeclaredVehicle(p) ==
  /\ NonEmptyString(p.vehicleId)
  /\ NumberFrom(p.soc, 0) /\ p.soc.v <= 100 * One
  /\ NumberFrom(p.kwhDeliveredDc, 0)
  /\ IsNum(p.batteryTemp)
  /\ IsIso(p.timestamp)

Declared(cls, p) == IF cls = "meter" THEN DeclaredMeter(p) ELSE DeclaredVehicle(p)

\* The payload carries neither the three meter fields nor the three vehicle fields.
NeitherSchema(p) ==
  /\ ~(Present(p.meterId) /\ Present(p.kwhConsumedAc) /\ Present(p.voltage))
  /\ ~(Present(p.vehicleId) /\ Present(p.soc) /\ Present(p.kwhDeliveredDc))

\* The step takes a single-ingest request in on slot t.
SingleArrives(t) == Free(t) /\ tx'[t] # tx[t] /\ ~tx'[t].batch

\* The request taken in on slot t is answered 400 in the same step, and no
\* statement is sent: no client is taken, no sequence advances, no table changes.
RefusedAtOnce(t) ==
  /\ tx'[t].pc = "done" /\ tx'[t].resp.status = 400 /\ ~tx'[t].resp.success
  /\ UNCHANGED <<store, meterSeq, vehSeq, pool>>

StoreFailures == {"store failure", "rollback failure", "deadlock detected"}

\* C15: a single ingest of a meter or vehicle reading that misses a required
\* field, has one of the wrong type or out of its declared range, or has no
\* timestamp that parses, is refused before any statement is sent and no
\* table changes; a reading that satisfies all of these is accepted: it is
\* sent to the store, and is not rejected unless the store itself fails.
C15_DeclaredReadingsAccepted ==
  [][\A t \in Slots :
       /\ (SingleArrives(t) /\ ~NeitherSchema(tx'[t].args[1])) =>
            IF Declared(tx'[t].cls, tx'[t].args[1])
            THEN tx'[t].pc = "insHist"
            ELSE RefusedAtOnce(t)
       /\ (~tx[t].batch /\ StepOf(t) /\ tx'[t].out.state = "rejected"
              /\ Declared(tx[t].cls, tx[t].args[1])) =>
            tx'[t].out.message \in StoreFailures]_vars

\* C17: a single-ingest request whose payload is of neither schema is answered
\* 400 at once: no statement is sent and the history and status tables of both
\* device classes stay as they are.
C17_UnknownIsRefused ==
  [][\A t \in Slots :
       (SingleArrives(t) /\ NeitherSchema(tx'[t].args[1])) => RefusedAtOnce(t)]_vars

\* C17 witness: the vehicle reading without soc was answered 400 as the first
\* request, and the tables are empty.
C17_Witness ==
  \E t \in Slots :
    /\ ~tx[t].batch /\ tx[t].pc = "done" /\ tx[t].cls = "unknown"
    /\ tx[t].args[1].soc = Undef /\ tx[t].resp.status = 400
    /\ budget = MaxReqs - 1
    /\ meterHist = {} /\ vehHist = {} /\ meterStatus = {} /\ vehStatus = {}
    /\ vehSeq = 0 /\ pool = 0

\* C18: a store failure in the middle of a single ingest's dual write is
\* answered 500, and nothing of the ingest is in the history or status tables.
C18_StoreFailureIs500 ==
  [][\A t \in Slots :
       (~tx[t].batch /\ StepOf(t) /\ tx'[t].out.state = "rejected"
          /\ tx'[t].out.message \in StoreFailures) =>
         /\ tx'[t].resp.status = 500
         /\ UNCHANGED store
         /\ tx[t].hist \cap (meterHist' \cup vehHist') = {}]_vars

\* The calls of the batch request of the call on slot t, after the step.
GroupsOf(t) == {t} \cup (IF tx'[t].peer = 0 THEN {} ELSE {tx'[t].peer})

\* The readings the calls on the slots S carry after the step, as pairs of
\* slot and position.
ReadingsOf(S) == UNION {{<<t, k>> : k \in DOMAIN tx'[t].args} : t \in S}

\* The calls among S that are fulfilled after the step.
FulfilledOf(S) == {t \in S : tx'[t].out.state = "fulfilled"}

\* C19: the items of a batch that are of neither schema go to neither group:
\* the groups hold the other items and nothing else, so no statement carries
\* such an item; a batch of such items alone is answered 201 with total 0
\* and no error and nothing is written; and when a batch request is answered,
\* total is the number of readings of the groups that committed and errors
\* has one entry per group that failed, none for the dropped items.
C19_UnknownItemsDropped ==
  [][/\ \A batchData \in BatchBodies : IngestBatch(batchData) =>
          LET kept == {k \in DOMAIN batchData : ~NeitherSchema(batchData[k])}
              started == {t \in Slots : tx'[t] # tx[t]}
          IN /\ \A t \in started : \A k \in DOMAIN tx'[t].args :
                  ~NeitherSchema(tx'[t].args[k])
             /\ Cardinality(ReadingsOf(started)) = Cardinality(kept)
             /\ (batchData # <<>> /\ kept = {}) =>
                  \A t \in started :
                    /\ tx'[t].pc = "done" /\ tx'[t].resp.status = 201
                    /\ tx'[t].resp.total = 0 /\ tx'[t].resp.errors = <<>>
                    /\ UNCHANGED <<store, meterSeq, vehSeq, pool>>
     /\ \A t \in Slots :
          (tx[t].batch /\ InTx(t) /\ tx'[t].pc = "done") =>
            /\ tx'[t].resp.status = 201
            /\ tx'[t].resp.total = Cardinality(ReadingsOf(FulfilledOf(GroupsOf(t))))
            /\ Len(tx'[t].resp.errors) =
                 Cardinality({g \in GroupsOf(t) : tx'[g].out.state = "rejected"})]_vars

\* C19 witness: the batch of an item of neither schema and a meter reading
\* was answered with total 1 and no error; the meter reading is stored and
\* no vehicle statement was sent.
C19_Witness ==
  \E t \in Slots :
    /\ tx[t].batch /\ tx[t].pc = "done" /\ tx[t].peer = 0
    /\ tx[t].args = <<MeterPayload("D2", 1250000, 11000000, 1)>>
    /\ tx[t].resp.status = 201 /\ tx[t].resp.total = 1 /\ tx[t].resp.meters = 1
    /\ tx[t].resp.vehicles = 0 /\ tx[t].resp.errors = <<>>
    /\ Cardinality(meterHist) = 1 /\ vehSeq = 0 /\ vehHist = {} /\ vehStatus = {}

-----------------------------------------------------------------------------
(* Properties of the classifier and of the batch operations' entry checks. *)

\* C16: the classifier answers by the presence of keys alone, in order:
\* meter if meterId, kwhConsumedAc and voltage are all present; else vehicle
\* if vehicleId, soc and kwhDeliveredDc are all present; else unknown;
\* whatever the fields hold (null, a number, a string); and it changes nothing.
C16_ClassifierIsStructural ==
  (view.op = "return" /\ view.fn = "identifyTelemetryType") =>
    LET data == view.arg
        meter == Present(data.meterId) /\ Present(data.kwhConsumedAc) /\ Present(data.voltage)
        vehicle == Present(data.vehicleId) /\ Present(data.soc) /\ Present(data.kwhDeliveredDc)
    IN /\ meter => view.value = "meter"
       /\ (~meter /\ vehicle) => view.value = "vehicle"
       /\ (~meter /\ ~vehicle) => view.value = "unknown"
       /\ meterHist = {} /\ vehHist = {} /\ meterStatus = {} /\ vehStatus = {}

\* C16 witness: a payload holding all six fields, none of them of the type its
\* schema declares, was classified as meter.
C16_Witness ==
  /\ view.op = "return" /\ view.fn = "identifyTelemetryType" /\ view.value = "meter"
  /\ view.arg.meterId = Num(0) /\ view.arg.kwhConsumedAc = JsNull
  /\ view.arg.voltage = Str("x") /\ view.arg.vehicleId = Str("x")
  /\ view.arg.soc = Num(0) /\ view.arg.kwhDeliveredDc = Num(0)

\* The argument is an empty collection or no collection.
EmptyOrNoCollection(x) == ~IsArray(x) \/ Len(x.items) = 0

\* C20: a batch operation called with an empty input or with one that is not
\* a collection fails: it does not answer with a count, and writes nothing.
C20_EmptyBatchFails ==
  (view.op = "return" /\ view.fn # "identifyTelemetryType"
     /\ EmptyOrNoCollection(view.arg)) =>
    /\ view.value.state = "rejected"
    /\ meterHist = {} /\ vehHist = {} /\ meterStatus = {} /\ vehStatus = {}

-----------------------------------------------------------------------------
(* Properties of what the tables hold and of the concurrent writers.       *)

\* C25: every row of the history and status tables is within the declared
\* ranges, after any single and batch ingests: a meter row has kwh_consumed_ac
\* and voltage of at least 0, a vehicle row has soc from 0 to 100 and
\* kwh_delivered_dc of at least 0.
C25_StoredRowsInDeclaredRanges ==
  /\ \A r \in meterHist : r.kwh_consumed_ac >= 0 /\ r.voltage >= 0
  /\ \A r \in meterStatus : r.kwh_consumed_ac >= 0 /\ r.voltage >= 0
  /\ \A r \in vehHist : r.soc >= 0 /\ r.soc <= 100 * One /\ r.kwh_delivered_dc >= 0
  /\ \A r \in vehStatus : r.soc >= 0 /\ r.soc <= 100 * One /\ r.kwh_delivered_dc >= 0

\* A vehicle batch call is fulfilled in the step.
VehicleBatchFulfils(t) ==
  tx[t].batch /\ tx[t].cls = "vehicle" /\ StepOf(t) /\ tx'[t].out.state = "fulfilled"

\* C26: when a vehicle batch commits, the status row of every vehicle of the
\* batch holds is_charging = false, whatever soc the vehicle's status row held
\* before and whatever the order of the socs within the batch; a single
\* ingest stores the result of comparing its soc with the status row it read.
C26_BatchStatusNotCharging ==
  [][\A t \in Slots :
       /\ VehicleBatchFulfils(t) =>
            \A k \in DOMAIN tx[t].args :
              /\ VehicleRowsOf(vehStatus', tx[t].args[k].vehicleId.s) # {}
              /\ \A s \in VehicleRowsOf(vehStatus', tx[t].args[k].vehicleId.s) :
                   ~s.is_charging
       /\ VehicleIngestFulfils(t) =>
            \A s \in VehicleRowsOf(vehStatus', tx[t].args[1].vehicleId.s) :
              s.is_charging = tx[t].isCharging]_vars

\* C26 witness: the vehicle had a status row at 40.00, a batch with its
\* readings at 41 and then 50 has committed, and the row is at 50.00 and not
\* charging.
C26_Witness ==
  /\ \E r \in vehHist : r.vehicle_id = "D1" /\ r.id = 1 /\ r.soc = 4000000
  /\ \E t \in Slots :
       /\ tx[t].batch /\ tx[t].cls = "vehicle" /\ tx[t].pc = "done"
       /\ tx[t].out = Fulfilled(2)
       /\ tx[t].args[1].vehicleId = tx[t].args[2].vehicleId
       /\ tx[t].args[1].soc.v < tx[t].args[2].soc.v
       /\ \E a, b \in vehHist : a.id = 2 /\ a.soc = 4100000 /\ b.id = 3 /\ b.soc = 5000000
  /\ \E s \in vehStatus : s.vehicle_id = "D1" /\ s.soc = 5000000 /\ ~s.is_charging

\* The service calls that hold a pooled client.
Holding == {t \in Slots : InTx(t)}

\* C27: the transaction helper commits exactly when BEGIN and every statement
\* of the callback have completed: the tables change only in the step that
\* fulfils a call, taken from before its COMMIT. On any error (of a statement
\* of the callback, of COMMIT, or of the ROLLBACK that follows an error) the
\* call is rejected and nothing is written. On each of these ways out the
\* client is released once: the number of clients checked out is always the
\* number of calls in progress, and is 0 when none is.
C27_TransactionReleasesOnce ==
  /\ [](pool = Cardinality(Holding))
  /\ [][\A t \in Slots : StepOf(t) =>
           /\ tx'[t].out.state = "fulfilled" <=> (tx[t].pc = "commit" /\ faults' = faults)
           /\ tx'[t].out.state = "rejected" => UNCHANGED store
           /\ tx'[t].out.state = "none" =>
                /\ UNCHANGED <<store, pool>>
                /\ tx'[t].pc \in {"insHist", "select", "upsert", "commit"}
           /\ tx'[t].out.state # "none" =>
                /\ pool' = pool - 1
                /\ tx'[t].pc \in {"done", "settled"}
           /\ store' # store => tx'[t].out.state = "fulfilled"]_vars

\* C27 witness: every request has been answered; one call was rejected with
\* the error of its ROLLBACK, at COMMIT, another one has committed, and no
\* client is checked out.
C27_Witness ==
  /\ budget = 0 /\ pool = 0 /\ Holding = {}
  /\ \E t, u \in Slots :
       /\ tx[t].out = Rejected("rollback failure")
       /\ tx[t].i = Len(tx[t].args) + 1
       /\ tx[u].out.state = "fulfilled"
       /\ tx[u].hist \subseteq (meterHist \cup vehHist)
       /\ tx[t].hist # {} /\ tx[t].hist \cap (meterHist \cup vehHist) = {}

\* C28: in every state, also with writers of one device running concurrently
\* (the model has no purge among them), a device has a status row exactly
\* when it has history rows, and the status row holds the fields of the
\* device's history row with the greatest id.
C28_StatusMirrorsNewestHistory ==
  \A id \in Ids :
    /\ MeterRowsOf(meterStatus, id) = {} <=> MeterRowsOf(meterHist, id) = {}
    /\ VehicleRowsOf(vehStatus, id) = {} <=> VehicleRowsOf(vehHist, id) = {}
    /\ \A s \in MeterRowsOf(meterStatus, id) :
         LET h == Newest(MeterRowsOf(meterHist, id))
         IN /\ s.kwh_consumed_ac = h.kwh_consumed_ac
            /\ s.voltage = h.voltage
            /\ s.last_updated = h.recorded_at
    /\ \A s \in VehicleRowsOf(vehStatus, id) :
         LET h == Newest(VehicleRowsOf(vehHist, id))
         IN /\ s.soc = h.soc
            /\ s.kwh_delivered_dc = h.kwh_delivered_dc
            /\ s.battery_temp = h.battery_temp
            /\ s.last_updated = h.recorded_at

\* C29: when a single vehicle ingest commits, the is_charging it stores is
\* the comparison of its soc with the soc of the status row that its upsert
\* replaces (false when there is none), also when single ingests of the
\* vehicle run concurrently.
C29_ChargingFromLatestStatus ==
  [][\A t \in Slots : VehicleIngestFulfils(t) =>
       LET p == tx[t].args[1]
           prior == VehicleRowsOf(vehStatus, p.vehicleId.s)
       IN \A s \in VehicleRowsOf(vehStatus', p.vehicleId.s) :
            s.is_charging = (\E q \in prior : p.soc.v > q.soc)]_vars

\* The devices of the readings of the call on slot t.
DevicesOf(t) == {DeviceId(tx[t].cls, tx[t].args[k]) : k \in DOMAIN tx[t].args}

\* C30: concurrent batches of one device class never wait for each other in
\* a cycle: no call is aborted as the victim of a deadlock; and a call waits
\* only for a call of its class that has a device in common with it.
C30_NoBatchAbortedByDeadlock ==
  \A t \in Slots :
    /\ tx[t].out.message # "deadlock detected"
    /\ tx[t].pc = "upsert" =>
         \A u \in Blockers(t) : tx[u].cls = tx[t].cls /\ DevicesOf(t) \cap DevicesOf(u) # {}

-----------------------------------------------------------------------------
(* Properties of the batch operations against the single ingests.          *)

\* s after ingest(r1), ..., ingest(rn), each run on the outcome of the one before.
RECURSIVE IngestInOrder(_, _)
IngestInOrder(s, readings) ==
  IF readings = <<>> THEN s
  ELSE IngestInOrder(ingest(s, Head(readings)), Tail(readings))

\* The meter tables before the step, and the sequence as the call on slot t found it.
BeforeCall(t) ==
  [hist |-> meterHist, status |-> meterStatus,
   seq |-> Newest(tx[t].hist).id - Len(tx[t].args)]

MeterBatchFulfils(t) ==
  tx[t].batch /\ tx[t].cls = "meter" /\ StepOf(t) /\ tx'[t].out.state = "fulfilled"

\* C31: a successful meter ingestBatch of valid readings r1..rn, repeated meter
\* ids included, leaves the meter history and the meter status table as
\* ingest(r1), ..., ingest(rn) run in that order leave them (ingested_at
\* aside), and returns count = n; a single ingest leaves what ingest says.
C31_MeterBatchIsIngestsInOrder ==
  [][\A t \in Slots :
       /\ MeterIngestFulfils(t) =>
            LET s == ingest(BeforeCall(t), tx[t].args[1])
            IN meterHist' = s.hist /\ meterStatus' = s.status /\ meterSeq' = s.seq
       /\ (MeterBatchFulfils(t) /\ \A k \in DOMAIN tx[t].args : validateMeterData(tx[t].args[k]) = "") =>
            LET s == IngestInOrder(BeforeCall(t), tx[t].args)
            IN /\ meterHist' = s.hist /\ meterStatus' = s.status /\ meterSeq' = s.seq
               /\ tx'[t].out = Fulfilled(Len(tx[t].args))
               /\ tx'[t].resp.meters = Len(tx[t].args)]_vars

\* C31 witness: after an earlier request, a batch of two different readings of
\* meter D1 was ingested; the history holds both, in the order given, and the
\* status row of D1 holds the second.
C31_Witness ==
  \E t \in Slots :
    /\ tx[t].batch /\ tx[t].pc = "done" /\ tx[t].out = Fulfilled(2)
    /\ tx[t].args = <<MeterPayload("D1", 320000, 23000000, 1), MeterPayload("D1", 5, 21999600, 0)>>
    /\ budget = 0 /\ meterSeq > 2
    /\ \E r \in meterHist : r.id = meterSeq /\ r.kwh_consumed_ac = 10
    /\ \E r \in meterHist : r.id = meterSeq - 1 /\ r.kwh_consumed_ac = 320000
    /\ \E r \in meterStatus : r.meter_id = "D1" /\ r.kwh_consumed_ac = 10 /\ r.last_updated = 0

\* The count the response reports for the class that the call on slot t is not of.
ReportedOther(t) == IF tx[t].cls = "meter" THEN tx[t].resp.vehicles ELSE tx[t].resp.meters

\* C32: in the answer of every batch request that reaches dispatch, total is
\* meters + vehicles, and the count of each class is the number of history
\* rows the request has committed for it: the size of the group when its
\* transaction committed, 0 when it failed or the request had no item of
\* the class.
C32_BatchCountsAreCommittedRows ==
  \A t \in Slots :
    (tx[t].batch /\ tx[t].pc = "done" /\ tx[t].resp.status = 201) =>
      /\ tx[t].resp.total = tx[t].resp.meters + tx[t].resp.vehicles
      /\ IF tx[t].cls = "none"
         THEN tx[t].resp.meters = 0 /\ tx[t].resp.vehicles = 0
         ELSE /\ Reported(t) = Cardinality(Landed(t))
              /\ Landed(t) \in {{}, tx[t].hist}
              /\ Landed(t) # {} => Cardinality(Landed(t)) = Len(tx[t].args)
              /\ tx[t].peer = 0 => ReportedOther(t) = 0

\* C32 witness: a batch of two readings of one vehicle and no meter reading
\* was answered with vehicles 2, meters 0 and total 2; the vehicle history
\* holds its two rows and the status table the one row of the vehicle.
C32_Witness ==
  \E t \in Slots :
    /\ tx[t].batch /\ tx[t].pc = "done" /\ tx[t].cls = "vehicle" /\ tx[t].peer = 0
    /\ Len(tx[t].args) = 2 /\ tx[t].args[1].vehicleId = tx[t].args[2].vehicleId
    /\ tx[t].resp.status = 201 /\ tx[t].resp.vehicles = 2
    /\ tx[t].resp.meters = 0 /\ tx[t].resp.total = 2
    /\ Cardinality(Landed(t)) = 2 /\ Cardinality(vehStatus) = 1

====
